---- MODULE Spec2Model ----
(***************************************************************************)
(* Model of the tarkov-texture-converter pipeline.                         *)
(*                                                                         *)
(* Strings are sequences of one-character strings, so that os.path and     *)
(* str operations (splitext, lower, startswith, concatenation) are         *)
(* computed character by character as the library computes them.           *)
(* A path inside a folder is the pair <<folder name, entry name>>.         *)
(***************************************************************************)
EXTENDS Integers, Sequences, FiniteSets, TLC

\* ------------------------------------------------------------------ bounds

\* Largest number of entries the scanned input folder holds.
MaxFiles == 2

\* Number of TextureProcessor constructions on one input folder.
NumRuns == 2

\* Number of output-folder names that may already exist before the first run.
MaxPre == 2

\* Largest number of underscore-separated tokens of a classified file name.
MaxTokens == 3

\* Largest number of pixels of an image given to a channel transform.
MaxPixels == 2

\* Images and materials of a GLTF document.
MaxImages == 2

MaxMaterials == 2

\* ------------------------------------------------------- program constants

PNG_COMPRESSION_DEFAULT == 0

PNG_COMPRESSION_OPTIMIZED == 9

\* Largest value of an 8-bit channel (np.uint8).
MaxByte == 255

\* ----------------------------------------------------------------- strings

Max(S) == CHOOSE x \in S : \A y \in S : y <= x

\* F applied to the value of x: a local variable, assigned once and read often.
With(x, F(_)) == CHOOSE y \in {F(v) : v \in {x}} : TRUE

EXT_PNG == <<".", "p", "n", "g">>

EXT_JPG == <<".", "j", "p", "g">>

EXT_JPEG == <<".", "j", "p", "e", "g">>

EXT_TIF == <<".", "t", "i", "f">>

EXT_TIFF == <<".", "t", "i", "f", "f">>

EXT_BMP == <<".", "b", "m", "p">>

EXT_TGA == <<".", "t", "g", "a">>

SUPPORTED_FORMATS == {EXT_PNG, EXT_JPG, EXT_JPEG, EXT_TIF, EXT_TIFF, EXT_BMP, EXT_TGA}

DEFAULT_OUTPUT_SUBFOLDER ==
    <<"c", "o", "n", "v", "e", "r", "t", "e", "d", "_",
      "t", "e", "x", "t", "u", "r", "e", "s">>

\* str.lower() on one character (file names of the model are ASCII).
UpperCase == <<"A", "B", "C", "D", "E", "F", "G", "H", "I", "J", "K", "L", "M",
               "N", "O", "P", "Q", "R", "S", "T", "U", "V", "W", "X", "Y", "Z">>

LowerCase == <<"a", "b", "c", "d", "e", "f", "g", "h", "i", "j", "k", "l", "m",
               "n", "o", "p", "q", "r", "s", "t", "u", "v", "w", "x", "y", "z">>

LowerMap == [c \in {UpperCase[k] : k \in 1..Len(UpperCase)} |->
                LowerCase[CHOOSE k \in 1..Len(UpperCase) : UpperCase[k] = c]]

LowerChar(c) == IF c \in DOMAIN LowerMap THEN LowerMap[c] ELSE c

lower(s) == [i \in 1..Len(s) |-> LowerChar(s[i])]

startswith(s, prefix) ==
    /\ Len(prefix) <= Len(s)
    /\ SubSeq(s, 1, Len(prefix)) = prefix

\* str.rfind('.') as a 1-based index, 0 when there is no dot.
rfind_dot(s) ==
    LET I == {i \in 1..Len(s) : s[i] = "."}
    IN  IF I = {} THEN 0 ELSE Max(I)

\* os.path.splitext on an entry name (no separators): the extension starts at
\* the last dot, unless only dots precede it.
splitext(p) ==
    LET d == rfind_dot(p)
    IN  IF d > 0 /\ \E i \in 1..(d - 1) : p[i] # "."
        THEN <<SubSeq(p, 1, d - 1), SubSeq(p, d, Len(p))>>
        ELSE <<p, <<>>>>

\* str.split('_'): the tokens between underscores, empty tokens included.
RECURSIVE split_underscore(_)
split_underscore(s) ==
    LET I == {i \in 1..Len(s) : s[i] = "_"}
    IN  IF I = {}
        THEN <<s>>
        ELSE LET k == CHOOSE i \in I : \A j \in I : i <= j
             IN  <<SubSeq(s, 1, k - 1)>> \o split_underscore(SubSeq(s, k + 1, Len(s)))

Digit(n) ==
    CASE n = 0 -> "0" [] n = 1 -> "1" [] n = 2 -> "2" [] n = 3 -> "3" [] n = 4 -> "4"
      [] n = 5 -> "5" [] n = 6 -> "6" [] n = 7 -> "7" [] n = 8 -> "8" [] n = 9 -> "9"

\* str(int) of a non-negative integer, as the f-string formats the counter.
RECURSIVE int_to_str(_)
int_to_str(n) ==
    IF n < 10 THEN <<Digit(n)>> ELSE int_to_str(n \div 10) \o <<Digit(n % 10)>>

\* utils.insert_suffix
insert_suffix_after_ext(filename, suffix) ==
    LET base == splitext(filename)[1]
        ext  == splitext(filename)[2]
    IN  base \o ext \o suffix

insert_suffix(filename, suffix) ==
    LET base == splitext(filename)[1]
        ext  == splitext(filename)[2]
        sfx  == IF base # <<>> /\ suffix # <<>> /\ ~startswith(suffix, <<"_">>)
                THEN <<"_">> \o suffix
                ELSE suffix
    IN  base \o sfx \o ext

\* ------------------------------------------------------------------ images

\* An optional value: Python's None, or a value.
None == [some |-> FALSE]

Some(v) == [some |-> TRUE, val |-> v]

\* The outcome of a call that may raise.
Raised == [raised |-> TRUE]

Returned(v) == [raised |-> FALSE, val |-> v]

\* cv2.imread / cv2.imdecode with IMREAD_UNCHANGED: None for bytes that do not
\* decode, else the pixel array in OpenCV's channel order (B,G,R[,A]). A file's
\* content is [ok, ch, px] with px in the logical order (R,G,B[,A]).
imread(content) ==
    IF ~content.ok
    THEN None
    ELSE Some([ch |-> content.ch,
               px |-> [i \in 1..Len(content.px) |->
                         LET p == content.px[i]
                         IN  CASE content.ch = 3 -> <<p[3], p[2], p[1]>>
                               [] content.ch = 4 -> <<p[3], p[2], p[1], p[4]>>
                               [] OTHER -> p]])

\* cv2.cvtColor for the conversion codes the program uses.
cvtColor(a, code) ==
    CASE code = "GRAY2RGBA" ->
           [ch |-> 4, px |-> [i \in 1..Len(a.px) |->
                                <<a.px[i][1], a.px[i][1], a.px[i][1], MaxByte>>]]
      [] code = "BGR2RGBA" ->
           [ch |-> 4, px |-> [i \in 1..Len(a.px) |->
                                <<a.px[i][3], a.px[i][2], a.px[i][1], MaxByte>>]]
      [] code = "BGRA2RGBA" ->
           [ch |-> 4, px |-> [i \in 1..Len(a.px) |->
                                <<a.px[i][3], a.px[i][2], a.px[i][1], a.px[i][4]>>]]
      [] code = "RGB2RGBA" ->
           [ch |-> 4, px |-> [i \in 1..Len(a.px) |->
                                <<a.px[i][1], a.px[i][2], a.px[i][3], MaxByte>>]]

\* TextureProcessor._load_image: None, or the array as RGBA.
_load_image(content) ==
    With(imread(content), LAMBDA first :
    With(IF first.some THEN first ELSE imread(content), LAMBDA img :
        IF ~img.some THEN None
        ELSE CASE img.val.ch = 1 -> Some(cvtColor(img.val, "GRAY2RGBA"))
               [] img.val.ch = 3 -> Some(cvtColor(img.val, "BGR2RGBA"))
               [] img.val.ch = 4 -> Some(cvtColor(img.val, "BGRA2RGBA"))
               [] OTHER -> None))

\* uint8 subtraction 255 - x.
\* An inversion from 256 instead of 255.
Invert_from_256(x) == (MaxByte + 1 - x) % (MaxByte + 1)

Invert(x) == (MaxByte - x) % (MaxByte + 1)

_process_normal_map_standard(img_array) ==
    LET a == IF img_array.ch = 3 THEN cvtColor(img_array, "RGB2RGBA") ELSE img_array
    IN  IF img_array.ch # 4 /\ img_array.ch # 3
        THEN img_array
        ELSE [ch |-> 4, px |-> [i \in 1..Len(a.px) |->
                                  <<a.px[i][4], a.px[i][2], MaxByte, MaxByte>>]]

_process_normal_map_tarkin(img_array) ==
    CASE img_array.ch = 4 ->
           [ch |-> 4, px |-> [i \in 1..Len(img_array.px) |->
                <<img_array.px[i][1], img_array.px[i][2], img_array.px[i][3], MaxByte>>]]
      [] img_array.ch = 3 -> cvtColor(img_array, "RGB2RGBA")
      [] OTHER -> img_array

\* A diffuse transform that emits the alpha map only when every pixel is
\* translucent (np.all in place of np.any).
_process_diffuse_map_standard_all(img_array) ==
    CASE img_array.ch = 4 ->
           LET color_only == [ch |-> 4, px |-> [i \in 1..Len(img_array.px) |->
                   <<img_array.px[i][1], img_array.px[i][2], img_array.px[i][3], MaxByte>>]]
               alpha_map == [ch |-> 4, px |-> [i \in 1..Len(img_array.px) |->
                   <<img_array.px[i][4], img_array.px[i][4], img_array.px[i][4], MaxByte>>]]
           IN  IF \A i \in 1..Len(img_array.px) : img_array.px[i][4] < MaxByte
               THEN Returned(<<color_only, Some(alpha_map)>>)
               ELSE Returned(<<color_only, None>>)
      [] img_array.ch = 3 -> Returned(<<cvtColor(img_array, "RGB2RGBA"), None>>)
      [] OTHER -> Raised

\* Returns <<color_only, alpha_map>>, alpha_map optional; raises on other layouts.
_process_diffuse_map_standard(img_array) ==
    CASE img_array.ch = 4 ->
           LET color_only == [ch |-> 4, px |-> [i \in 1..Len(img_array.px) |->
                   <<img_array.px[i][1], img_array.px[i][2], img_array.px[i][3], MaxByte>>]]
               alpha_map == [ch |-> 4, px |-> [i \in 1..Len(img_array.px) |->
                   <<img_array.px[i][4], img_array.px[i][4], img_array.px[i][4], MaxByte>>]]
           IN  IF \E i \in 1..Len(img_array.px) : img_array.px[i][4] < MaxByte
               THEN Returned(<<color_only, Some(alpha_map)>>)
               ELSE Returned(<<color_only, None>>)
      [] img_array.ch = 3 -> Returned(<<cvtColor(img_array, "RGB2RGBA"), None>>)
      [] OTHER -> Raised

_process_diffuse_map_tarkin(img_array) ==
    CASE img_array.ch = 4 ->
           Returned([ch |-> 4, px |-> [i \in 1..Len(img_array.px) |->
               <<img_array.px[i][1], img_array.px[i][2], img_array.px[i][3], MaxByte>>]])
      [] img_array.ch = 3 -> Returned(cvtColor(img_array, "RGB2RGBA"))
      [] OTHER -> Raised

_process_gloss_map(img_array) ==
    IF img_array.ch < 3 THEN Raised
    ELSE LET a == IF img_array.ch = 3 THEN cvtColor(img_array, "RGB2RGBA") ELSE img_array
         IN  Returned([ch |-> 4, px |-> [i \in 1..Len(a.px) |->
                 <<Invert(a.px[i][1]), Invert(a.px[i][1]), Invert(a.px[i][1]), MaxByte>>]])

\* Returns <<specular, roughness>>.
_process_specglos_map_split(img_array) ==
    IF img_array.ch # 4 THEN Raised
    ELSE Returned(<<
           [ch |-> 4, px |-> [i \in 1..Len(img_array.px) |->
               <<img_array.px[i][1], img_array.px[i][2], img_array.px[i][3], MaxByte>>]],
           [ch |-> 4, px |-> [i \in 1..Len(img_array.px) |->
               <<Invert(img_array.px[i][4]), Invert(img_array.px[i][4]),
                 Invert(img_array.px[i][4]), MaxByte>>]]>>)

\* The single-file script's _process_normal_map_standard: blue takes the input
\* red.
Legacy_process_normal_map_standard(img_array) ==
    [ch |-> 4, px |-> [i \in 1..Len(img_array.px) |->
        <<img_array.px[i][4], img_array.px[i][2], img_array.px[i][1], MaxByte>>]]

\* The single-file script's _process_diffuse_map_standard: <<color_only,
\* alpha_only>>, both always.
Legacy_process_diffuse_map_standard(img_array) ==
    << [ch |-> 4, px |-> [i \in 1..Len(img_array.px) |->
           <<img_array.px[i][1], img_array.px[i][2], img_array.px[i][3], MaxByte>>]],
       [ch |-> 4, px |-> [i \in 1..Len(img_array.px) |->
           <<img_array.px[i][4], img_array.px[i][4], img_array.px[i][4], MaxByte>>]] >>

\* ---------------------------------------------------------- classification

NORMAL == "normal"

DIFFUSE == "diff"

GLOSS == "gloss"

SPECGLOS == "specglos"

NormalTokens == {<<"n">>, <<"n", "o", "r", "m", "a", "l">>, <<"n", "r", "m">>}

DiffuseTokens == {<<"d">>, <<"d", "i", "f", "f">>, <<"d", "i", "f", "f", "u", "s", "e">>,
                  <<"a", "l", "b", "e", "d", "o">>}

GlossTokens == {<<"g">>, <<"g", "l", "o", "s", "s">>, <<"g", "l", "s">>}

SpecGlosTokens == {<<"s", "g">>, <<"s", "p", "e", "c", "g", "l", "o", "s">>}

\* The single-file script's token lists for Gloss and SpecGlos.
LegacyGlossTokens == {<<"g">>, <<"g", "l", "o", "s", "s">>}

LegacySpecGlosTokens == {<<"s", "g">>, <<"s", "p", "e", "c", "g", "l", "o", "s">>}

\* The single-file script's loop "for part in reversed(parts)": a SpecGlos
\* token is looked at in Tarkin mode only.
RECURSIVE LegacyScanParts(_, _, _)
LegacyScanParts(parts, k, tarkin) ==
    IF k = 0
    THEN IF tarkin THEN None ELSE Some(NORMAL)
    ELSE CASE parts[k] \in NormalTokens -> Some(NORMAL)
           [] parts[k] \in DiffuseTokens -> Some(DIFFUSE)
           [] parts[k] \in LegacyGlossTokens -> IF tarkin THEN None ELSE Some(GLOSS)
           [] tarkin /\ parts[k] \in LegacySpecGlosTokens -> Some(SPECGLOS)
           [] OTHER -> LegacyScanParts(parts, k - 1, tarkin)

\* The single-file script's TextureProcessor._get_texture_type
Legacy_get_texture_type(filename, tarkin) ==
    With(lower(splitext(filename)[1]), LAMBDA base_name :
    With(split_underscore(base_name), LAMBDA parts :
        LegacyScanParts(parts, Len(parts), tarkin)))

\* A scan that walks the tokens from the first to the last (reversed() left
\* out): the leftmost known token decides.
RECURSIVE ScanParts_forward(_, _, _)
ScanParts_forward(parts, k, tarkin) ==
    IF k = 0
    THEN IF tarkin THEN None ELSE Some(NORMAL)
    ELSE LET part == parts[Len(parts) - k + 1]
         IN  CASE part \in NormalTokens -> Some(NORMAL)
               [] part \in DiffuseTokens -> Some(DIFFUSE)
               [] part \in GlossTokens -> IF tarkin THEN None ELSE Some(GLOSS)
               [] part \in SpecGlosTokens -> IF tarkin THEN Some(SPECGLOS) ELSE None
               [] OTHER -> ScanParts_forward(parts, k - 1, tarkin)

\* The loop "for part in reversed(parts)" from index k down to 1.
RECURSIVE ScanParts(_, _, _)
ScanParts(parts, k, tarkin) ==
    IF k = 0
    THEN IF tarkin THEN None ELSE Some(NORMAL)
    ELSE CASE parts[k] \in NormalTokens -> Some(NORMAL)
           [] parts[k] \in DiffuseTokens -> Some(DIFFUSE)
           [] parts[k] \in GlossTokens -> IF tarkin THEN None ELSE Some(GLOSS)
           [] parts[k] \in SpecGlosTokens -> IF tarkin THEN Some(SPECGLOS) ELSE None
           [] OTHER -> ScanParts(parts, k - 1, tarkin)

\* A classifier without the Standard-mode fallback: a name without a known
\* token has no role in either mode.
_get_texture_type_no_default(filename, tarkin) ==
    With(lower(splitext(filename)[1]), LAMBDA base_name :
    With(split_underscore(base_name), LAMBDA parts :
        IF \A k \in DOMAIN parts :
               parts[k] \notin (NormalTokens \cup DiffuseTokens \cup GlossTokens
                                  \cup SpecGlosTokens)
        THEN None
        ELSE ScanParts(parts, Len(parts), tarkin)))

\* TextureProcessor._get_texture_type
_get_texture_type(filename, tarkin) ==
    With(lower(splitext(filename)[1]), LAMBDA base_name :
    With(split_underscore(base_name), LAMBDA parts :
        ScanParts(parts, Len(parts), tarkin)))

\* ------------------------------------------------------------- the worker

\* The result tuple (status, base_name, data_dict, error_msg). data_dict is the
\* sequence of its (key, array) items in insertion order; a None data_dict is
\* the empty sequence (the only use, "status == success and data_dict", treats
\* None and an empty dict alike).
Result(status, base_name, data, error) ==
    [status |-> status, base_name |-> base_name, data |-> data, error |-> error]

\* A try block that forgets the specular output of a SpecGlos file.
Transform_roughness_only(texture_type, img_array, tarkin) ==
    CASE texture_type = DIFFUSE ->
           IF tarkin
           THEN LET r == _process_diffuse_map_tarkin(img_array)
                IN  IF r.raised THEN Raised ELSE Returned(<<<<"color", r.val>>>>)
           ELSE LET r == _process_diffuse_map_standard(img_array)
                IN  IF r.raised THEN Raised
                    ELSE IF r.val[2].some
                         THEN Returned(<<<<"color", r.val[1]>>, <<"alpha", r.val[2].val>>>>)
                         ELSE Returned(<<<<"color", r.val[1]>>>>)
      [] texture_type = SPECGLOS ->
           LET r == _process_specglos_map_split(img_array)
           IN  IF r.raised THEN Raised
               ELSE Returned(<<<<"roughness", r.val[2]>>>>)
      [] texture_type = NORMAL ->
           IF tarkin
           THEN Returned(<<<<"converted", _process_normal_map_tarkin(img_array)>>>>)
           ELSE Returned(<<<<"converted", _process_normal_map_standard(img_array)>>>>)
      [] texture_type = GLOSS ->
           LET r == _process_gloss_map(img_array)
           IN  IF r.raised THEN Raised ELSE Returned(<<<<"roughness", r.val>>>>)

\* The body of the try block once the image is loaded and has a role.
Transform(texture_type, img_array, tarkin) ==
    CASE texture_type = DIFFUSE ->
           IF tarkin
           THEN LET r == _process_diffuse_map_tarkin(img_array)
                IN  IF r.raised THEN Raised ELSE Returned(<<<<"color", r.val>>>>)
           ELSE LET r == _process_diffuse_map_standard(img_array)
                IN  IF r.raised THEN Raised
                    ELSE IF r.val[2].some
                         THEN Returned(<<<<"color", r.val[1]>>, <<"alpha", r.val[2].val>>>>)
                         ELSE Returned(<<<<"color", r.val[1]>>>>)
      [] texture_type = SPECGLOS ->
           LET r == _process_specglos_map_split(img_array)
           IN  IF r.raised THEN Raised
               ELSE Returned(<<<<"spec", r.val[1]>>, <<"roughness", r.val[2]>>>>)
      [] texture_type = NORMAL ->
           IF tarkin
           THEN Returned(<<<<"converted", _process_normal_map_tarkin(img_array)>>>>)
           ELSE Returned(<<<<"converted", _process_normal_map_standard(img_array)>>>>)
      [] texture_type = GLOSS ->
           LET r == _process_gloss_map(img_array)
           IN  IF r.raised THEN Raised ELSE Returned(<<<<"roughness", r.val>>>>)

\* TextureProcessor.process_texture_return_data on the file named filename
\* (os.path.basename of the input path) holding content.
process_texture_return_data(filename, content, tarkin) ==
    With(splitext(filename)[1], LAMBDA base_name :
    With(_load_image(content), LAMBDA img_array :
        IF ~img_array.some THEN Result("failed", base_name, <<>>, "Failed to load image")
        ELSE With(_get_texture_type(filename, tarkin), LAMBDA texture_type :
            IF ~texture_type.some THEN Result("skipped", base_name, <<>>, "Skipped")
            ELSE With(Transform(texture_type.val, img_array.val, tarkin), LAMBDA r :
                IF r.raised THEN Result("failed", base_name, <<>>, "Processing error")
                ELSE Result("success", base_name, r.val, "None")))))

\* ------------------------------------------------------------------- state

VARIABLES
    entries,               \* the input folder's immediate entries [name, kind, content]
    tarkin_mode,           \* self.tarkin_mode
    png_compression,       \* self.png_compression
    has_callback,          \* whether process_all got a progress_callback
    output_folder,         \* self.output_folder (<<>> before construction)
    pc,                    \* where the run is
    input_files,           \* the discovered files (entry names)
    pending,               \* futures of the processing pool not yet collected
    processed_results,     \* the list processed_results
    successful_count, failed_count, skipped_count,
    processed_files_count, total_files,
    progress_calls,        \* the (completed, total) calls of the callback, processing stage
    save_has_callback,     \* whether save_processed_data got a progress_callback
    save_tasks,            \* the list save_tasks
    save_pending,          \* futures of the save pool not yet collected
    successful_saves, failed_saves,
    save_progress_calls,   \* the (completed, total) calls of the callback, saving stage
    written,               \* the paths cv2.imwrite wrote
    returned,              \* what process_all returned (None while running)
    run_pc,                \* per construction: idle, probe, makedirs, constructed, raised
    run_impl,              \* per construction: "package" (processor.py) or "legacy"
    run_counter,           \* per construction: the local counter
    run_candidate,         \* per construction: the local output_folder
    run_output,            \* per construction: self.output_folder once constructed
    run_seen,              \* per construction: the entry names when it began
    run_preds,             \* per construction: the constructions finished when it began
    worker,                \* one call of the worker function: its arguments and results
    transform,             \* one call of a channel transform: its argument and result
    gltf                   \* one GLTF document under update_gltf_files

runVars == <<tarkin_mode, png_compression, has_callback, output_folder, pc, input_files,
             pending, processed_results, successful_count, failed_count, skipped_count,
             processed_files_count, total_files, progress_calls, save_has_callback,
             save_tasks, save_pending, successful_saves, failed_saves,
             save_progress_calls, written, returned>>

ctorVars == <<run_pc, run_impl, run_counter, run_candidate, run_output, run_seen,
              run_preds>>

callVars == <<worker, transform, gltf>>

vars == <<entries, runVars, ctorVars, callVars>>

\* ------------------------------------------------------- the input folder

S_helmet == <<"h", "e", "l", "m", "e", "t">>

\* File contents: 4-channel with one pixel A=200 and the rest A=255, 4-channel
\* opaque, 4-channel with height in alpha, 3-channel, grayscale, undecodable.
Translucent4 == [ok |-> TRUE, ch |-> 4, px |-> <<<<10, 20, 30, 200>>, <<40, 50, 60, 255>>>>]

Opaque4 == [ok |-> TRUE, ch |-> 4, px |-> <<<<10, 20, 30, 255>>>>]

Height4 == [ok |-> TRUE, ch |-> 4, px |-> <<<<10, 20, 30, 128>>>>]

Rgb3 == [ok |-> TRUE, ch |-> 3, px |-> <<<<10, 20, 30>>>>]

Gray1 == [ok |-> TRUE, ch |-> 1, px |-> <<<<77>>>>]

Corrupt == [ok |-> FALSE, ch |-> 0, px |-> <<>>]

File(name, content) == [name |-> name, kind |-> "file", content |-> content]

Dir(name) == [name |-> name, kind |-> "dir", content |-> Corrupt]

\* The entries an input folder of the model may hold.
EntryPool ==
    { File(S_helmet \o <<"_", "d">> \o EXT_PNG, Translucent4),
      File(S_helmet \o <<"_", "n">> \o EXT_PNG, Height4),
      File(S_helmet \o <<"_", "n">> \o EXT_JPG, Rgb3),
      File(<<"a", ".", "b", "_", "d">> \o EXT_TGA, Opaque4),
      File(<<"y", "_", "g", "l", "o", "s", "s", ".", "B", "M", "P">>, Corrupt),
      File(<<"y", "_", "g", "l", "o", "s", "s">> \o EXT_PNG, Rgb3),
      File(<<"x", "_", "s", "g">> \o EXT_PNG, Translucent4),
      File(<<"r", "o", "c", "k">> \o EXT_TIF, Gray1),
      File(<<"n", "o", "t", "e", "s", ".", "p", "s", "d">>, Opaque4),
      File(<<".", "h", "_", "d">> \o EXT_PNG, Opaque4),
      Dir(<<"s", "u", "b", "_", "d">> \o EXT_PNG),
      Dir(DEFAULT_OUTPUT_SUBFOLDER) }

Names(es) == {e.name : e \in es}

\* The content of the file an input path names.
ContentOf(es, name) == (CHOOSE e \in es : e.name = name).content

\* ------------------------------------------------------------- constructor

\* f"{base_output}_{counter}"
NumberedFolder(counter) == DEFAULT_OUTPUT_SUBFOLDER \o <<"_">> \o int_to_str(counter)

\* os.path.exists(os.path.join(input_folder, name))
exists(es, name) == name \in Names(es)

\* os.makedirs(name, exist_ok=True) in the input folder.
makedirs(es, name) == IF exists(es, name) THEN es ELSE es \cup {Dir(name)}

\* The while loop of _get_unique_output_folder, run without interruption.
RECURSIVE ProbeLoop(_, _, _)
ProbeLoop(es, candidate, counter) ==
    IF exists(es, candidate)
    THEN ProbeLoop(es, NumberedFolder(counter), counter + 1)
    ELSE candidate

\* TextureProcessor._get_unique_output_folder, called by __init__ before any
\* worker starts.
_get_unique_output_folder(es) == ProbeLoop(es, DEFAULT_OUTPUT_SUBFOLDER, 1)

\* ------------------------------------------------------------ process_all

Tally == <<successful_count, failed_count, skipped_count>>

\* A discovery loop without the dot-file test.
Discovered_with_hidden(es) ==
    {e.name : e \in {x \in es : /\ x.kind = "file"
                                /\ splitext(lower(x.name))[2] \in SUPPORTED_FORMATS}}

\* A discovery that also walks into the subfolders, where the files that were
\* written lie.
Discovered_recursive(es) ==
    {e.name : e \in {x \in es : /\ x.kind = "file"
                                /\ ~startswith(x.name, <<".">>)
                                /\ splitext(lower(x.name))[2] \in SUPPORTED_FORMATS}}
        \cup {p[2] : p \in written}

\* The discovery loop over os.scandir(self.input_folder).
Discovered(es) ==
    {e.name : e \in {x \in es : /\ x.kind = "file"
                                /\ ~startswith(x.name, <<".">>)
                                /\ splitext(lower(x.name))[2] \in SUPPORTED_FORMATS}}

SuffixOf(suffix_key) ==
    CASE suffix_key = "color" -> Some(<<"_", "c", "o", "l", "o", "r">>)
      [] suffix_key = "alpha" -> Some(<<"_", "a", "l", "p", "h", "a">>)
      [] suffix_key = "spec" -> Some(<<"_", "s", "p", "e", "c">>)
      [] suffix_key = "roughness" -> Some(<<"_", "r", "o", "u", "g", "h", "n", "e", "s", "s">>)
      [] suffix_key = "converted" -> Some(<<"_", "c", "o", "n", "v", "e", "r", "t", "e", "d">>)
      [] OTHER -> None

\* The save tasks of one result: the inner loop over data_dict.items().
RECURSIVE TasksOfResult(_, _, _, _)
TasksOfResult(base_name, data, folder, compression) ==
    IF data = <<>> THEN <<>>
    ELSE LET suffix == SuffixOf(Head(data)[1])
             rest   == TasksOfResult(base_name, Tail(data), folder, compression)
         IN  IF ~suffix.some THEN rest
             ELSE <<[img_array   |-> Head(data)[2],
                     out_path    |-> <<folder, insert_suffix(base_name \o EXT_PNG, suffix.val)>>,
                     compression |-> compression]>> \o rest

\* The loop of save_processed_data that builds save_tasks from the results.
RECURSIVE BuildSaveTasks(_, _, _)
BuildSaveTasks(results, folder, compression) ==
    IF results = <<>> THEN <<>>
    ELSE (IF Head(results).status = "success" /\ Head(results).data # <<>>
          THEN TasksOfResult(Head(results).base_name, Head(results).data, folder, compression)
          ELSE <<>>)
         \o BuildSaveTasks(Tail(results), folder, compression)

\* The path _save_image writes: the extension of the given path replaced by .png.
SavedPath(output_path) == <<output_path[1], splitext(output_path[2])[1] \o EXT_PNG>>

\* The constructions of the other specifications are idle during a single run.
CtorIdle ==
    /\ run_pc = [r \in 1..NumRuns |-> "idle"]
    /\ run_impl = [r \in 1..NumRuns |-> "package"]
    /\ run_counter = [r \in 1..NumRuns |-> 1]
    /\ run_candidate = [r \in 1..NumRuns |-> <<>>]
    /\ run_output = [r \in 1..NumRuns |-> <<>>]
    /\ run_seen = [r \in 1..NumRuns |-> {}]
    /\ run_preds = [r \in 1..NumRuns |-> {}]

\* No single call of the other specifications is in progress.
CallIdle ==
    /\ worker = [pc |-> "idle"]
    /\ transform = [pc |-> "idle"]
    /\ gltf = [pc |-> "idle"]

RunInit ==
    /\ output_folder = <<>>
    /\ pc = "construct"
    /\ input_files = {}
    /\ pending = {}
    /\ processed_results = <<>>
    /\ successful_count = 0
    /\ failed_count = 0
    /\ skipped_count = 0
    /\ processed_files_count = 0
    /\ total_files = 0
    /\ progress_calls = <<>>
    /\ save_has_callback = FALSE
    /\ save_tasks = <<>>
    /\ save_pending = {}
    /\ successful_saves = 0
    /\ failed_saves = 0
    /\ save_progress_calls = <<>>
    /\ written = {}
    /\ returned = None

\* One run of a TextureProcessor on an input folder of at most MaxFiles entries.
Init ==
    /\ entries \in {es \in SUBSET EntryPool : Cardinality(es) <= MaxFiles}
    /\ tarkin_mode \in BOOLEAN
    /\ png_compression \in {PNG_COMPRESSION_DEFAULT, PNG_COMPRESSION_OPTIMIZED}
    /\ has_callback \in BOOLEAN
    /\ RunInit
    /\ CtorIdle
    /\ CallIdle

\* TextureProcessor.__init__: the output folder is chosen and created.
Construct ==
    /\ pc = "construct"
    /\ output_folder' = _get_unique_output_folder(entries)
    /\ entries' = makedirs(entries, output_folder')
    /\ pc' = "discover"
    /\ UNCHANGED <<tarkin_mode, png_compression, has_callback, input_files, pending,
                   processed_results, successful_count, failed_count, skipped_count,
                   processed_files_count, total_files, progress_calls, save_has_callback,
                   save_tasks, save_pending, successful_saves, failed_saves,
                   save_progress_calls, written, returned, ctorVars, callVars>>

\* process_all, discovery: the scan fails (the run returns (0,0,0)), finds
\* nothing (the same), or every discovered file is submitted to the process pool.
Discover ==
    /\ pc = "discover"
    /\ \/ /\ pc' = "done"
          /\ returned' = Some(<<0, 0, 0>>)
          /\ UNCHANGED <<input_files, pending, total_files>>
       \/ /\ Discovered(entries) = {}
          /\ pc' = "done"
          /\ returned' = Some(<<0, 0, 0>>)
          /\ UNCHANGED <<input_files, pending, total_files>>
       \/ /\ Discovered(entries) # {}
          /\ input_files' = Discovered(entries)
          /\ pending' = Discovered(entries)
          /\ total_files' = Cardinality(Discovered(entries))
          /\ pc' = "processing"
          /\ UNCHANGED returned
    /\ UNCHANGED <<entries, tarkin_mode, png_compression, has_callback, output_folder,
                   processed_results, successful_count, failed_count, skipped_count,
                   processed_files_count, progress_calls, save_has_callback,
                   save_tasks, save_pending, successful_saves, failed_saves,
                   save_progress_calls, written, ctorVars, callVars>>

\* A collection step in which the exception handler forgets to count the file.
CollectResult_uncounted(f, crash) ==
    /\ pc = "processing"
    /\ f \in pending
    /\ pending' = pending \ {f}
    /\ \E r \in {process_texture_return_data(f, ContentOf(entries, f), tarkin_mode)} :
           IF crash
           THEN /\ processed_results' = Append(processed_results,
                       Result("failed", splitext(f)[1], <<>>, "Critical error"))
                /\ UNCHANGED <<successful_count, skipped_count, failed_count>>
           ELSE /\ processed_results' = Append(processed_results, r)
                /\ successful_count' = successful_count + (IF r.status = "success" THEN 1 ELSE 0)
                /\ failed_count' = failed_count + (IF r.status = "failed" THEN 1 ELSE 0)
                /\ skipped_count' = skipped_count + (IF r.status = "skipped" THEN 1 ELSE 0)
    /\ processed_files_count' = processed_files_count + 1
    /\ progress_calls' = IF has_callback
                         THEN Append(progress_calls, <<processed_files_count', total_files>>)
                         ELSE progress_calls
    /\ UNCHANGED <<entries, tarkin_mode, png_compression, has_callback, output_folder, pc,
                   input_files, total_files, save_has_callback, save_tasks, save_pending,
                   successful_saves, failed_saves, save_progress_calls, written, returned,
                   ctorVars, callVars>>

\* A collection step in which an exception of future.result() leaves the loop.
CollectResult_propagates(f, crash) ==
    /\ pc = "processing"
    /\ f \in pending
    /\ pending' = pending \ {f}
    /\ \E r \in {process_texture_return_data(f, ContentOf(entries, f), tarkin_mode)} :
           IF crash
           THEN /\ pc' = "aborted"
                /\ UNCHANGED <<processed_results, successful_count, skipped_count,
                               failed_count>>
           ELSE /\ processed_results' = Append(processed_results, r)
                /\ successful_count' = successful_count + (IF r.status = "success" THEN 1 ELSE 0)
                /\ failed_count' = failed_count + (IF r.status = "failed" THEN 1 ELSE 0)
                /\ skipped_count' = skipped_count + (IF r.status = "skipped" THEN 1 ELSE 0)
                /\ pc' = pc
    /\ processed_files_count' = processed_files_count + 1
    /\ progress_calls' = IF has_callback
                         THEN Append(progress_calls, <<processed_files_count', total_files>>)
                         ELSE progress_calls
    /\ UNCHANGED <<entries, tarkin_mode, png_compression, has_callback, output_folder,
                   input_files, total_files, save_has_callback, save_tasks, save_pending,
                   successful_saves, failed_saves, save_progress_calls, written, returned,
                   ctorVars, callVars>>

\* A collection step in which the callback is called in the try block only,
\* so a file whose result raises is not reported.
CollectResult_no_finally(f, crash) ==
    /\ pc = "processing"
    /\ f \in pending
    /\ pending' = pending \ {f}
    /\ \E r \in {process_texture_return_data(f, ContentOf(entries, f), tarkin_mode)} :
           IF crash
           THEN /\ processed_results' = Append(processed_results,
                       Result("failed", splitext(f)[1], <<>>, "Critical error"))
                /\ failed_count' = failed_count + 1
                /\ UNCHANGED <<successful_count, skipped_count>>
           ELSE /\ processed_results' = Append(processed_results, r)
                /\ successful_count' = successful_count + (IF r.status = "success" THEN 1 ELSE 0)
                /\ failed_count' = failed_count + (IF r.status = "failed" THEN 1 ELSE 0)
                /\ skipped_count' = skipped_count + (IF r.status = "skipped" THEN 1 ELSE 0)
    /\ processed_files_count' = processed_files_count + 1
    /\ progress_calls' = IF has_callback /\ ~crash
                         THEN Append(progress_calls, <<processed_files_count', total_files>>)
                         ELSE progress_calls
    /\ UNCHANGED <<entries, tarkin_mode, png_compression, has_callback, output_folder, pc,
                   input_files, total_files, save_has_callback, save_tasks, save_pending,
                   successful_saves, failed_saves, save_progress_calls, written, returned,
                   ctorVars, callVars>>

\* process_all, one iteration of "for future in as_completed(future_to_path)":
\* the future of file f completes and is collected; crash: future.result()
\* raises (the worker process died, the result did not unpickle).
CollectResult(f, crash) ==
    /\ pc = "processing"
    /\ f \in pending
    /\ pending' = pending \ {f}
    /\ \E r \in {process_texture_return_data(f, ContentOf(entries, f), tarkin_mode)} :
           IF crash
           THEN /\ processed_results' = Append(processed_results,
                       Result("failed", splitext(f)[1], <<>>, "Critical error"))
                /\ failed_count' = failed_count + 1
                /\ UNCHANGED <<successful_count, skipped_count>>
           ELSE /\ processed_results' = Append(processed_results, r)
                /\ successful_count' = successful_count + (IF r.status = "success" THEN 1 ELSE 0)
                /\ failed_count' = failed_count + (IF r.status = "failed" THEN 1 ELSE 0)
                /\ skipped_count' = skipped_count + (IF r.status = "skipped" THEN 1 ELSE 0)
    /\ processed_files_count' = processed_files_count + 1
    /\ progress_calls' = IF has_callback
                         THEN Append(progress_calls, <<processed_files_count', total_files>>)
                         ELSE progress_calls
    /\ UNCHANGED <<entries, tarkin_mode, png_compression, has_callback, output_folder, pc,
                   input_files, total_files, save_has_callback, save_tasks, save_pending,
                   successful_saves, failed_saves, save_progress_calls, written, returned,
                   ctorVars, callVars>>

\* A process_all that goes on to the save stage as soon as one result has
\* been collected, without waiting for the processing pool to drain.
FinishProcessing_early ==
    /\ pc = "processing"
    /\ processed_results # <<>>
    /\ \E tasks \in {BuildSaveTasks(processed_results, output_folder, png_compression)} :
           IF successful_count > 0 /\ tasks # <<>>
           THEN /\ save_tasks' = tasks
                /\ save_pending' = 1..Len(tasks)
                /\ save_has_callback' = FALSE
                /\ pc' = "saving"
                /\ UNCHANGED returned
           ELSE /\ pc' = "done"
                /\ returned' = Some(Tally)
                /\ UNCHANGED <<save_tasks, save_pending, save_has_callback>>
    /\ UNCHANGED <<entries, tarkin_mode, png_compression, has_callback, output_folder,
                   input_files, pending, processed_results, successful_count, failed_count,
                   skipped_count, processed_files_count, total_files, progress_calls,
                   successful_saves, failed_saves, save_progress_calls, written, ctorVars, callVars>>

\* process_all after the processing pool has drained: with no success it
\* returns; else it calls save_processed_data(processed_results,
\* progress_callback=None), which builds the save tasks and submits them all.
FinishProcessing ==
    /\ pc = "processing"
    /\ pending = {}
    /\ \E tasks \in {BuildSaveTasks(processed_results, output_folder, png_compression)} :
           IF successful_count > 0 /\ tasks # <<>>
           THEN /\ save_tasks' = tasks
                /\ save_pending' = 1..Len(tasks)
                /\ save_has_callback' = FALSE
                /\ pc' = "saving"
                /\ UNCHANGED returned
           ELSE /\ pc' = "done"
                /\ returned' = Some(Tally)
                /\ UNCHANGED <<save_tasks, save_pending, save_has_callback>>
    /\ UNCHANGED <<entries, tarkin_mode, png_compression, has_callback, output_folder,
                   input_files, pending, processed_results, successful_count, failed_count,
                   skipped_count, processed_files_count, total_files, progress_calls,
                   successful_saves, failed_saves, save_progress_calls, written, ctorVars, callVars>>

\* A save step in which a failed save demotes a file from successful to failed.
CompleteSave_demotes(i, ok) ==
    /\ pc = "saving"
    /\ i \in save_pending
    /\ save_pending' = save_pending \ {i}
    /\ IF ok
       THEN /\ written' = written \cup {SavedPath(save_tasks[i].out_path)}
            /\ successful_saves' = successful_saves + 1
            /\ UNCHANGED <<failed_saves, successful_count, failed_count>>
       ELSE /\ failed_saves' = failed_saves + 1
            /\ successful_count' = successful_count - 1
            /\ failed_count' = failed_count + 1
            /\ UNCHANGED <<written, successful_saves>>
    /\ save_progress_calls' =
           IF save_has_callback
           THEN Append(save_progress_calls,
                       <<successful_saves' + failed_saves', Len(save_tasks)>>)
           ELSE save_progress_calls
    /\ UNCHANGED <<entries, tarkin_mode, png_compression, has_callback, output_folder, pc,
                   input_files, pending, processed_results, skipped_count,
                   processed_files_count, total_files, progress_calls,
                   save_has_callback, save_tasks, returned, ctorVars, callVars>>

\* save_processed_data, one iteration of "for future in as_completed(...)":
\* the save task i completes and is collected; ok: _save_image wrote the file,
\* else it raised RuntimeError.
CompleteSave(i, ok) ==
    /\ pc = "saving"
    /\ i \in save_pending
    /\ save_pending' = save_pending \ {i}
    /\ IF ok
       THEN /\ written' = written \cup {SavedPath(save_tasks[i].out_path)}
            /\ successful_saves' = successful_saves + 1
            /\ UNCHANGED failed_saves
       ELSE /\ failed_saves' = failed_saves + 1
            /\ UNCHANGED <<written, successful_saves>>
    /\ save_progress_calls' =
           IF save_has_callback
           THEN Append(save_progress_calls,
                       <<successful_saves' + failed_saves', Len(save_tasks)>>)
           ELSE save_progress_calls
    /\ UNCHANGED <<entries, tarkin_mode, png_compression, has_callback, output_folder, pc,
                   input_files, pending, processed_results, successful_count, failed_count,
                   skipped_count, processed_files_count, total_files, progress_calls,
                   save_has_callback, save_tasks, returned, ctorVars, callVars>>

\* save_processed_data returns once the save pool has drained, and process_all
\* returns the tally.
FinishSave ==
    /\ pc = "saving"
    /\ save_pending = {}
    /\ pc' = "done"
    /\ returned' = Some(Tally)
    /\ UNCHANGED <<entries, tarkin_mode, png_compression, has_callback, output_folder,
                   input_files, pending, processed_results, successful_count, failed_count,
                   skipped_count, processed_files_count, total_files, progress_calls,
                   save_has_callback, save_tasks, save_pending, successful_saves,
                   failed_saves, save_progress_calls, written, ctorVars, callVars>>

Collect == \E f \in pending : \E crash \in BOOLEAN : CollectResult(f, crash)

Save == \E i \in save_pending : \E ok \in BOOLEAN : CompleteSave(i, ok)

Next ==
    \/ Construct
    \/ Discover
    \/ Collect
    \/ FinishProcessing
    \/ Save
    \/ FinishSave

Spec == Init /\ [][Next]_vars

\* The output folders that exist in the input folder.
OutputFolders(es) ==
    {e \in es : /\ e.kind = "dir"
                /\ \/ e.name = DEFAULT_OUTPUT_SUBFOLDER
                   \/ \E c \in 1..NumRuns : e.name = NumberedFolder(c)}

\* A later run on the same input folder: a new TextureProcessor is about to
\* be constructed.  The folder keeps its entries, and the files the earlier
\* runs wrote stay where they are.
RunAgain ==
    /\ pc = "done"
    /\ Cardinality(OutputFolders(entries)) < NumRuns
    /\ output_folder' = <<>>
    /\ pc' = "construct"
    /\ input_files' = {}
    /\ pending' = {}
    /\ processed_results' = <<>>
    /\ successful_count' = 0
    /\ failed_count' = 0
    /\ skipped_count' = 0
    /\ processed_files_count' = 0
    /\ total_files' = 0
    /\ progress_calls' = <<>>
    /\ save_has_callback' = FALSE
    /\ save_tasks' = <<>>
    /\ save_pending' = {}
    /\ successful_saves' = 0
    /\ failed_saves' = 0
    /\ save_progress_calls' = <<>>
    /\ returned' = None
    /\ UNCHANGED <<entries, tarkin_mode, png_compression, has_callback, written,
                   ctorVars, callVars>>

RerunNext == Next \/ RunAgain

\* The entries of an input folder that is run on several times.
RerunPool ==
    { File(S_helmet \o <<"_", "d">> \o EXT_PNG, Translucent4),
      File(<<"x", "_", "s", "g">> \o EXT_PNG, Translucent4),
      Dir(<<"s", "u", "b", "_", "d">> \o EXT_PNG),
      Dir(DEFAULT_OUTPUT_SUBFOLDER) }

\* The first run on the folder is about to be constructed: the CLI (no
\* callback) with the default compression, in either mode.
RerunInit ==
    /\ entries \in {es \in SUBSET RerunPool : Cardinality(es) <= MaxFiles}
    /\ tarkin_mode \in BOOLEAN
    /\ png_compression = PNG_COMPRESSION_DEFAULT
    /\ has_callback = FALSE
    /\ RunInit
    /\ CtorIdle
    /\ CallIdle

\* Several runs, one after the other, on the same input folder.
RerunSpec == RerunInit /\ [][RerunNext]_vars

\* Both pools run every submitted task to completion and as_completed yields
\* every future, so a run that can take a step eventually takes one.
FairSpec == Init /\ [][Next]_vars /\ WF_vars(Next)

\* ------------------------------------- constructions on one input folder

\* The output-folder names that may exist before the first construction.
PreNames == {DEFAULT_OUTPUT_SUBFOLDER} \cup {NumberedFolder(k) : k \in 1..(MaxPre - 1)}

\* Constructions on a folder that holds some earlier output folders; no run of
\* process_all is in progress.
CtorInit ==
    /\ entries \in {{Dir(n) : n \in ns} : ns \in SUBSET PreNames}
    /\ tarkin_mode = FALSE
    /\ png_compression = PNG_COMPRESSION_DEFAULT
    /\ has_callback = FALSE
    /\ RunInit
    /\ CtorIdle
    /\ CallIdle

Finished == {r \in 1..NumRuns : run_pc[r] = "constructed"}

Active == {r \in 1..NumRuns : run_pc[r] \in {"probe", "makedirs"}}

\* TextureProcessor(...) is called: _get_unique_output_folder begins. impl
\* tells the package's processor.py from the single-file script.
StartRun(r, impl) ==
    /\ run_pc[r] = "idle"
    /\ run_pc' = [run_pc EXCEPT ![r] = "probe"]
    /\ run_impl' = [run_impl EXCEPT ![r] = impl]
    /\ run_counter' = [run_counter EXCEPT ![r] = 1]
    /\ run_candidate' = [run_candidate EXCEPT ![r] = DEFAULT_OUTPUT_SUBFOLDER]
    /\ run_seen' = [run_seen EXCEPT ![r] = Names(entries)]
    /\ run_preds' = [run_preds EXCEPT ![r] = Finished]
    /\ UNCHANGED <<entries, runVars, callVars, run_output>>

\* A probe written with "if" in place of "while": the second candidate is
\* taken without a test.
Probe_once(r) ==
    /\ run_pc[r] = "probe"
    /\ run_impl[r] = "package"
    /\ run_pc' = [run_pc EXCEPT ![r] = "makedirs"]
    /\ IF exists(entries, run_candidate[r])
       THEN /\ run_candidate' = [run_candidate EXCEPT ![r] = NumberedFolder(run_counter[r])]
            /\ run_counter' = [run_counter EXCEPT ![r] = @ + 1]
       ELSE /\ UNCHANGED <<run_candidate, run_counter>>
    /\ UNCHANGED <<entries, runVars, callVars, run_impl, run_output, run_seen, run_preds>>

\* processor.py, one test of "while os.path.exists(output_folder)".
Probe(r) ==
    /\ run_pc[r] = "probe"
    /\ run_impl[r] = "package"
    /\ IF exists(entries, run_candidate[r])
       THEN /\ run_candidate' = [run_candidate EXCEPT ![r] = NumberedFolder(run_counter[r])]
            /\ run_counter' = [run_counter EXCEPT ![r] = @ + 1]
            /\ UNCHANGED run_pc
       ELSE /\ run_pc' = [run_pc EXCEPT ![r] = "makedirs"]
            /\ UNCHANGED <<run_candidate, run_counter>>
    /\ UNCHANGED <<entries, runVars, callVars, run_impl, run_output, run_seen, run_preds>>

\* processor.py, os.makedirs(output_folder, exist_ok=True) and the return.
MakeDirs(r) ==
    /\ run_pc[r] = "makedirs"
    /\ run_impl[r] = "package"
    /\ entries' = makedirs(entries, run_candidate[r])
    /\ run_output' = [run_output EXCEPT ![r] = run_candidate[r]]
    /\ run_pc' = [run_pc EXCEPT ![r] = "constructed"]
    /\ UNCHANGED <<runVars, callVars, run_impl, run_counter, run_candidate, run_seen, run_preds>>

\* The single-file script's candidate: no suffix for counter 1.
LegacyCandidate(counter) ==
    IF counter > 1 THEN NumberedFolder(counter) ELSE DEFAULT_OUTPUT_SUBFOLDER

\* The single-file script, one iteration of "while True" up to the existence test.
LegacyProbe(r) ==
    /\ run_pc[r] = "probe"
    /\ run_impl[r] = "legacy"
    /\ run_candidate' = [run_candidate EXCEPT ![r] = LegacyCandidate(run_counter[r])]
    /\ IF exists(entries, LegacyCandidate(run_counter[r]))
       THEN /\ run_counter' = [run_counter EXCEPT ![r] = @ + 1]
            /\ UNCHANGED run_pc
       ELSE /\ run_pc' = [run_pc EXCEPT ![r] = "makedirs"]
            /\ UNCHANGED run_counter
    /\ UNCHANGED <<entries, runVars, callVars, run_impl, run_output, run_seen, run_preds>>

\* The single-file script, os.makedirs(output_folder) without exist_ok: it
\* raises FileExistsError, which leaves __init__, when the folder exists by now.
LegacyMakeDirs(r) ==
    /\ run_pc[r] = "makedirs"
    /\ run_impl[r] = "legacy"
    /\ IF exists(entries, run_candidate[r])
       THEN /\ run_pc' = [run_pc EXCEPT ![r] = "raised"]
            /\ UNCHANGED <<entries, run_output>>
       ELSE /\ entries' = entries \cup {Dir(run_candidate[r])}
            /\ run_output' = [run_output EXCEPT ![r] = run_candidate[r]]
            /\ run_pc' = [run_pc EXCEPT ![r] = "constructed"]
    /\ UNCHANGED <<runVars, callVars, run_impl, run_counter, run_candidate, run_seen, run_preds>>

CtorStep(r) == Probe(r) \/ MakeDirs(r) \/ LegacyProbe(r) \/ LegacyMakeDirs(r)

\* Runs constructed one after another: a construction begins only when no
\* other is in progress.
SerialStart == \E r \in 1..NumRuns : \E impl \in {"package", "legacy"} :
                   Active = {} /\ StartRun(r, impl)

\* Runs constructed concurrently (two processes on the same input folder).
ConcurrentStart == \E r \in 1..NumRuns : \E impl \in {"package", "legacy"} :
                       StartRun(r, impl)

CtorSteps == \E r \in 1..NumRuns : CtorStep(r)

SerialNext == SerialStart \/ CtorSteps

ConcurrentNext == ConcurrentStart \/ CtorSteps

SerialSpec == CtorInit /\ [][SerialNext]_vars

ConcurrentSpec == CtorInit /\ [][ConcurrentNext]_vars

\* ------------------------------------------- one call of the worker function

\* The tokens file names of the worker calls are made of: known role tokens,
\* an upper-case one, and one that names no role.
TokenPool ==
    { <<"a">>, <<"n">>, <<"d", "i", "f", "f">>, <<"D">>, <<"g">>,
      <<"g", "l", "o", "s", "s">>, <<"s", "g">>,
      <<"s", "p", "e", "c", "g", "l", "o", "s">> }

TokenSeqs == UNION {[1..n -> TokenPool] : n \in 1..MaxTokens}

\* '_'.join(tokens)
RECURSIVE join_underscore(_)
join_underscore(tokens) ==
    IF Len(tokens) = 1 THEN tokens[1]
    ELSE tokens[1] \o <<"_">> \o join_underscore(Tail(tokens))

\* The contents of the file a worker call is given.
WorkerContents == {Translucent4, Opaque4, Rgb3, Corrupt}

\* One file name, one content and one mode, then the calls on them.
WorkerInit ==
    /\ entries = {}
    /\ tarkin_mode = FALSE
    /\ png_compression = PNG_COMPRESSION_DEFAULT
    /\ has_callback = FALSE
    /\ RunInit
    /\ CtorIdle
    /\ transform = [pc |-> "idle"]
    /\ gltf = [pc |-> "idle"]
    /\ \E tokens \in TokenSeqs, content \in WorkerContents, tarkin \in BOOLEAN :
           worker = [pc |-> "ready", impl |-> "none", tokens |-> tokens,
                     filename |-> join_underscore(tokens) \o EXT_PNG,
                     content |-> content, tarkin |-> tarkin,
                     texture_type |-> None, result |-> None, tasks |-> <<>>]

\* processor.py: TextureProcessor._get_texture_type(filename, tarkin_mode)
Classify ==
    /\ worker.pc = "ready"
    /\ worker' = [worker EXCEPT !.pc = "classified", !.impl = "package",
                     !.texture_type = _get_texture_type(worker.filename, worker.tarkin)]
    /\ UNCHANGED <<entries, runVars, ctorVars, transform, gltf>>

\* The single-file script: TextureProcessor._get_texture_type(filename, tarkin_mode)
LegacyClassify ==
    /\ worker.pc = "ready"
    /\ worker' = [worker EXCEPT !.pc = "classified", !.impl = "legacy",
                     !.texture_type = Legacy_get_texture_type(worker.filename, worker.tarkin)]
    /\ UNCHANGED <<entries, runVars, ctorVars, transform, gltf>>

\* processor.py: TextureProcessor.process_texture_return_data(input_path, tarkin_mode)
Process ==
    /\ worker.pc = "classified"
    /\ worker.impl = "package"
    /\ worker' = [worker EXCEPT !.pc = "processed",
                     !.result = Some(process_texture_return_data(worker.filename,
                                         worker.content, worker.tarkin))]
    /\ UNCHANGED <<entries, runVars, ctorVars, transform, gltf>>

\* processor.py: the task-building loop of save_processed_data on the one result.
BuildTasks ==
    /\ worker.pc = "processed"
    /\ worker' = [worker EXCEPT !.pc = "built",
                     !.tasks = BuildSaveTasks(<<worker.result.val>>, DEFAULT_OUTPUT_SUBFOLDER,
                                              PNG_COMPRESSION_DEFAULT)]
    /\ UNCHANGED <<entries, runVars, ctorVars, transform, gltf>>

WorkerNext == Classify \/ LegacyClassify \/ Process \/ BuildTasks

WorkerSpec == WorkerInit /\ [][WorkerNext]_vars

\* ----------------------------------------- one call of a channel transform

\* The values the colour channels of the one-pixel inputs take; their alpha
\* takes every value.
ChannelSamples == {0, 128, MaxByte}

\* The alpha values of the pixels of the larger inputs.
AlphaSamples == {0, MaxByte - 1, MaxByte}

\* RGBA arrays as _load_image returns them: every one-pixel image over the
\* samples, and images of 2..MaxPixels pixels that differ in their alphas.
TransformInputs ==
    {[ch |-> 4, px |-> <<<<r, g, b, a>>>>] :
        r \in ChannelSamples, g \in ChannelSamples, b \in ChannelSamples, a \in 0..MaxByte}
    \cup UNION {{[ch |-> 4, px |-> [i \in 1..n |-> <<10 * i, 20 * i, 30 * i, alphas[i]>>]] :
                    alphas \in [1..n -> AlphaSamples]} : n \in 2..MaxPixels}

\* The (role, mode) pairs the classifier can hand to the transforms.
TransformCalls ==
    {<<NORMAL, FALSE>>, <<NORMAL, TRUE>>, <<DIFFUSE, FALSE>>, <<DIFFUSE, TRUE>>,
     <<GLOSS, FALSE>>, <<SPECGLOS, TRUE>>}

TransformInit ==
    /\ entries = {}
    /\ tarkin_mode = FALSE
    /\ png_compression = PNG_COMPRESSION_DEFAULT
    /\ has_callback = FALSE
    /\ RunInit
    /\ CtorIdle
    /\ worker = [pc |-> "idle"]
    /\ gltf = [pc |-> "idle"]
    /\ \E img \in TransformInputs :
           transform = [pc |-> "ready", impl |-> "none", img_array |-> img,
                        texture_type |-> NORMAL, tarkin |-> FALSE, out |-> <<>>]

\* processor.py: the transform of a role and mode and the outputs the worker
\* stores for it.
ApplyTransform ==
    /\ transform.pc = "ready"
    /\ \E call \in TransformCalls :
           transform' = [transform EXCEPT !.pc = "done", !.impl = "package",
                            !.texture_type = call[1], !.tarkin = call[2],
                            !.out = Transform(call[1], transform.img_array, call[2]).val]
    /\ UNCHANGED <<entries, runVars, ctorVars, worker, gltf>>

\* The single-file script: _process_normal_map_standard and the one image
\* process_texture saves for it.
LegacyApplyNormalStandard ==
    /\ transform.pc = "ready"
    /\ transform' = [transform EXCEPT !.pc = "done", !.impl = "legacy",
                        !.texture_type = NORMAL, !.tarkin = FALSE,
                        !.out = <<<<"converted",
                                   Legacy_process_normal_map_standard(transform.img_array)>>>>]
    /\ UNCHANGED <<entries, runVars, ctorVars, worker, gltf>>

\* The single-file script: _process_diffuse_map_standard and the two images
\* process_texture saves for it.
LegacyApplyDiffuseStandard ==
    /\ transform.pc = "ready"
    /\ \E r \in {Legacy_process_diffuse_map_standard(transform.img_array)} :
           transform' = [transform EXCEPT !.pc = "done", !.impl = "legacy",
                            !.texture_type = DIFFUSE, !.tarkin = FALSE,
                            !.out = <<<<"color", r[1]>>, <<"alpha", r[2]>>>>]
    /\ UNCHANGED <<entries, runVars, ctorVars, worker, gltf>>

TransformNext == ApplyTransform \/ LegacyApplyNormalStandard \/ LegacyApplyDiffuseStandard

TransformSpec == TransformInit /\ [][TransformNext]_vars

\* -------------------------------------------------------- update_gltf_files

KHR_SPECGLOSS == "KHR_materials_pbrSpecularGlossiness"

\* A Python dict is a function on its keys; {} is the function on no key.
EmptyDict == [k \in {} |-> 0]

\* dict.get(key, default)
get(d, key, default) == IF key \in DOMAIN d THEN d[key] ELSE default

\* d[key] = value
put(d, key, value) == [k \in DOMAIN d \cup {key} |-> IF k = key THEN value ELSE d[k]]

\* d.pop(key)
pop(d, key) == [k \in DOMAIN d \ {key} |-> d[k]]

\* d.setdefault(key, value)
setdefault(d, key, value) == IF key \in DOMAIN d THEN d ELSE put(d, key, value)

\* The truth value of a dict or None.
Truthy(v) == v # None /\ DOMAIN v # {}

\* str.replace("\\", "/")
replace_backslash(s) == [i \in 1..Len(s) |-> IF s[i] = "\\" THEN "/" ELSE s[i]]

\* os.path.basename of a path written with forward slashes.
basename(p) ==
    LET I == {i \in 1..Len(p) : p[i] = "/"}
    IN  IF I = {} THEN p ELSE SubSeq(p, Max(I) + 1, Len(p))

DATA_PREFIX == <<"d", "a", "t", "a", ":">>

\* new_uri_base for an image file name: "" when its Tarkin-mode role is
\* neither Diffuse, SpecGlos nor Normal.
new_uri_base(old_filename) ==
    With(_get_texture_type(old_filename, TRUE), LAMBDA texture_type :
        CASE texture_type = Some(DIFFUSE) ->
               insert_suffix(old_filename, <<"_", "c", "o", "l", "o", "r">>) \o EXT_PNG
          [] texture_type = Some(SPECGLOS) ->
               insert_suffix(old_filename,
                             <<"_", "r", "o", "u", "g", "h", "n", "e", "s", "s">>) \o EXT_PNG
          [] texture_type = Some(NORMAL) ->
               insert_suffix(old_filename,
                             <<"_", "c", "o", "n", "v", "e", "r", "t", "e", "d">>) \o EXT_PNG
          [] OTHER -> <<>>)

\* An image loop with an idempotence check: a URI that already lies in the
\* output folder is left alone.
new_uri_checked(img, output_folder_basename) ==
    With(get(img, "uri", <<>>), LAMBDA old_uri :
        IF old_uri = <<>> \/ startswith(old_uri, DATA_PREFIX) THEN None
        ELSE IF startswith(old_uri, output_folder_basename \o <<"/">>) THEN None
        ELSE With(new_uri_base(basename(replace_backslash(old_uri))), LAMBDA base :
            IF base = <<>> THEN None
            ELSE With(replace_backslash(output_folder_basename \o <<"/">> \o base),
                      LAMBDA uri : IF old_uri # uri THEN Some(uri) ELSE None)))

\* One pass of the image loop: the URI the image gets, or None when the image
\* is left alone.
new_uri(img, output_folder_basename) ==
    With(get(img, "uri", <<>>), LAMBDA old_uri :
        IF old_uri = <<>> \/ startswith(old_uri, DATA_PREFIX) THEN None
        ELSE With(new_uri_base(basename(replace_backslash(old_uri))), LAMBDA base :
            IF base = <<>> THEN None
            ELSE With(replace_backslash(output_folder_basename \o <<"/">> \o base),
                      LAMBDA uri : IF old_uri # uri THEN Some(uri) ELSE None)))

\* The image loop: the images after it.
updated_images(images, output_folder_basename) ==
    [i \in DOMAIN images |->
        With(new_uri(images[i], output_folder_basename), LAMBDA u :
            IF u.some THEN put(images[i], "uri", u.val) ELSE images[i])]

\* The image loop: image_uri_map, from 0-based image index to new URI.
built_image_uri_map(images, output_folder_basename) ==
    [k \in {i - 1 : i \in {j \in DOMAIN images :
                              new_uri(images[j], output_folder_basename).some}} |->
        new_uri(images[k + 1], output_folder_basename).val]

\* "tex_index is not None and 0 <= tex_index < len(textures)" and
\* "textures[tex_index].get('source') in image_uri_map" for a texture info.
source_in_image_uri_map(tex_info, textures, image_uri_map) ==
    /\ Truthy(tex_info)
    /\ "index" \in DOMAIN tex_info
    /\ 0 <= tex_info["index"]
    /\ tex_info["index"] < Len(textures)
    /\ "source" \in DOMAIN textures[tex_info["index"] + 1]
    /\ textures[tex_info["index"] + 1]["source"] \in DOMAIN image_uri_map

PBR_TEXTURE_KEYS ==
    {"baseColorTexture", "metallicRoughnessTexture", "normalTexture",
     "occlusionTexture", "emissiveTexture"}

\* The specular-glossiness branch of the material loop, which leaves the
\* extension on the material.
converted_material_keeps_extension(mat, pbr) ==
    put(mat, "pbrMetallicRoughness", pbr)

\* The specular-glossiness branch of the material loop for a material that
\* was updated: pbrMetallicRoughness is stored, the extension is popped, and
\* an emptied "extensions" dict is popped too.
converted_material(mat, pbr) ==
    With(pop(mat["extensions"], KHR_SPECGLOSS), LAMBDA extensions :
        IF DOMAIN extensions = {}
        THEN pop(put(mat, "pbrMetallicRoughness", pbr), "extensions")
        ELSE put(put(mat, "pbrMetallicRoughness", pbr), "extensions", extensions))

\* One pass of the material loop: the material after it, whether it was
\* updated (mat_updated_internally) and whether the extension was removed.
updated_material(mat, textures, image_uri_map) ==
    LET pbr_metallic_roughness == get(mat, "pbrMetallicRoughness", EmptyDict)
        extensions == get(mat, "extensions", EmptyDict)
        spec_gloss == get(extensions, KHR_SPECGLOSS, None)
    IN  IF Truthy(spec_gloss)
        THEN LET diffuse == get(spec_gloss, "diffuseTexture", None)
                 sg_tex  == get(spec_gloss, "specularGlossinessTexture", None)
                 base_hit   == source_in_image_uri_map(diffuse, textures, image_uri_map)
                 has_factor == "diffuseFactor" \in DOMAIN spec_gloss
                 mr_hit     == source_in_image_uri_map(sg_tex, textures, image_uri_map)
                 normal_hit == source_in_image_uri_map(get(mat, "normalTexture", None),
                                                       textures, image_uri_map)
                 pbr1 == IF base_hit
                         THEN put(pbr_metallic_roughness, "baseColorTexture", diffuse)
                         ELSE pbr_metallic_roughness
                 pbr2 == IF has_factor
                         THEN put(pbr1, "baseColorFactor", spec_gloss["diffuseFactor"])
                         ELSE pbr1
                 pbr3 == IF mr_hit
                         THEN setdefault(setdefault(
                                  put(pbr2, "metallicRoughnessTexture", sg_tex),
                                  "metallicFactor", 0), "roughnessFactor", 1)
                         ELSE pbr2
             IN  IF base_hit \/ has_factor \/ mr_hit \/ normal_hit
                 THEN [mat |-> converted_material(mat, pbr3),
                       updated |-> TRUE, removed |-> TRUE]
                 ELSE [mat |-> mat, updated |-> FALSE, removed |-> FALSE]
        ELSE [mat |-> mat,
              updated |-> \E key \in PBR_TEXTURE_KEYS :
                              \E loc \in {mat, pbr_metallic_roughness} :
                                  source_in_image_uri_map(get(loc, key, None),
                                                          textures, image_uri_map),
              removed |-> FALSE]

\* The extension list that names the specular-glossiness extension loses it,
\* and the key goes when the list empties.  Lists are held as sets (the code
\* writes sorted(set)).
without_specgloss(gltf_data, key) ==
    With(get(gltf_data, key, {}), LAMBDA extensions :
        IF KHR_SPECGLOSS \notin extensions THEN gltf_data
        ELSE IF extensions \ {KHR_SPECGLOSS} # {}
             THEN put(gltf_data, key, extensions \ {KHR_SPECGLOSS})
             ELSE pop(gltf_data, key))

\* The document header update before the write.
with_extensions_updated(gltf_data, removed_specgloss_extension) ==
    IF removed_specgloss_extension
    THEN without_specgloss(without_specgloss(gltf_data, "extensionsUsed"),
                           "extensionsRequired")
    ELSE gltf_data

\* ---------------------------------------------- one document under the rewrite

\* Image URIs of the model: a Diffuse name, a SpecGlos name behind a
\* backslash, a Normal name without extension behind a folder, a data URI, and
\* a name with no Tarkin-mode role.
UriPool ==
    { S_helmet \o <<"_", "d">> \o EXT_PNG,
      <<"t", "\\", "x", "_", "s", "g">> \o EXT_TGA,
      <<"t", "/">> \o S_helmet \o <<"_", "n">>,
      DATA_PREFIX \o <<"x">>,
      <<"y", "_", "g", "l", "o", "s", "s">> \o EXT_PNG }

\* Image entries: one per URI, and one that has no "uri" key.
ImagePool == {[uri |-> u] : u \in UriPool} \cup {[bufferView |-> 0]}

\* textures[] of every document: texture 0 and 1 name image 0 and 1, texture 2
\* has no source.
Textures == <<[source |-> 0], [source |-> 1], [name |-> "t"]>>

OTHER_EXTENSION == "KHR_texture_transform"

\* Materials: specular-glossiness with a diffuse texture; the same with a
\* diffuseFactor, another extension and an existing pbrMetallicRoughness;
\* specular-glossiness with a specularGlossinessTexture, an out-of-range
\* diffuse index and a normal texture without source; a plain PBR material.
MaterialPool ==
    { [name |-> "A",
       extensions |-> (KHR_SPECGLOSS :> [diffuseTexture |-> [index |-> 0]])],
      [name |-> "B",
       extensions |-> (KHR_SPECGLOSS :> [diffuseTexture |-> [index |-> 1],
                                         diffuseFactor |-> "f"])
                      @@ (OTHER_EXTENSION :> [scale |-> 1]),
       pbrMetallicRoughness |-> [metallicFactor |-> 5]],
      [name |-> "C",
       extensions |-> (KHR_SPECGLOSS :> [diffuseTexture |-> [index |-> 5],
                                         specularGlossinessTexture |-> [index |-> 1]]),
       normalTexture |-> [index |-> 2]],
      [name |-> "D",
       pbrMetallicRoughness |-> [baseColorTexture |-> [index |-> 0]]] }

\* The extension declarations of a document.
DeclarationPool ==
    { EmptyDict,
      [extensionsUsed |-> {KHR_SPECGLOSS}],
      [extensionsUsed |-> {KHR_SPECGLOSS, OTHER_EXTENSION}],
      [extensionsUsed |-> {KHR_SPECGLOSS}, extensionsRequired |-> {KHR_SPECGLOSS}] }

SeqsUpTo(S, lo, hi) == UNION {[1..n -> S] : n \in lo..hi}

\* The documents a .gltf file of the model may hold.
Documents ==
    { decl @@ [images |-> imgs, textures |-> Textures, materials |-> mats] :
        decl \in DeclarationPool,
        imgs \in SeqsUpTo(ImagePool, 1, MaxImages),
        mats \in SeqsUpTo(MaterialPool, 0, MaxMaterials) }

\* A JSON value that is not an object (a number, say) where the loops expect
\* an object: .get() on it raises.
NotObject == [malformed |-> TRUE]

IsObject(v) == "malformed" \notin DOMAIN v

\* Documents with a malformed images or materials list.
MalformedDocuments ==
    { [images |-> <<[uri |-> S_helmet \o <<"_", "d">> \o EXT_PNG], NotObject>>,
       textures |-> Textures, materials |-> <<>>],
      [images |-> <<[uri |-> S_helmet \o <<"_", "d">> \o EXT_PNG]>>,
       textures |-> Textures, materials |-> <<NotObject>>] }

\* The scan reaches a .gltf file: the state in which the file is about to be
\* opened, with the .gltf files the scan has still to reach.
OpenDocument(doc, rest, count, output_folder_basename) ==
    [pc |-> "load", orig |-> doc, disk |-> doc, gltf_data |-> EmptyDict,
     output_folder_basename |-> output_folder_basename,
     image_uri_map |-> EmptyDict, file_updated |-> FALSE,
     removed_specgloss_extension |-> FALSE, write |-> "none", error |-> "none",
     rest |-> rest, updated_gltf_count |-> count, application |-> 1]

\* update_gltf_files has found a .gltf file and is about to open it.
GltfInit ==
    /\ entries = {}
    /\ tarkin_mode = TRUE
    /\ png_compression = PNG_COMPRESSION_DEFAULT
    /\ has_callback = FALSE
    /\ RunInit
    /\ CtorIdle
    /\ worker = [pc |-> "idle"]
    /\ transform = [pc |-> "idle"]
    /\ \E doc \in Documents \cup MalformedDocuments :
           gltf = OpenDocument(doc, <<>>, 0, DEFAULT_OUTPUT_SUBFOLDER)

\* json.load: the document is read, or the file is skipped on any error.
LoadGltf ==
    /\ gltf.pc = "load"
    /\ \E ok \in BOOLEAN :
           gltf' = IF ok THEN [gltf EXCEPT !.pc = "images", !.gltf_data = gltf.disk]
                         ELSE [gltf EXCEPT !.pc = "done", !.error = "load"]
    /\ UNCHANGED <<entries, runVars, ctorVars, worker, transform>>

\* The image loop.  An entry that is not an object raises out of the loop
\* over the folder, into the handler that ends the scan.
UpdateImages ==
    /\ gltf.pc = "images"
    /\ IF \E i \in DOMAIN gltf.gltf_data["images"] : ~IsObject(gltf.gltf_data["images"][i])
       THEN gltf' = [gltf EXCEPT !.pc = "aborted", !.error = "walk"]
       ELSE \E m \in {built_image_uri_map(gltf.gltf_data["images"],
                                          gltf.output_folder_basename)} :
                gltf' = [gltf EXCEPT
                            !.pc = "materials",
                            !.gltf_data = put(gltf.gltf_data, "images",
                                              updated_images(gltf.gltf_data["images"],
                                                             gltf.output_folder_basename)),
                            !.image_uri_map = m,
                            !.file_updated = DOMAIN m # {}]
    /\ UNCHANGED <<entries, runVars, ctorVars, worker, transform>>

\* The material loop.  An entry that is not an object raises out of the loop
\* over the folder, into the handler that ends the scan.
UpdateMaterials ==
    /\ gltf.pc = "materials"
    /\ IF \E i \in DOMAIN gltf.gltf_data["materials"] :
              ~IsObject(gltf.gltf_data["materials"][i])
       THEN gltf' = [gltf EXCEPT !.pc = "aborted", !.error = "walk"]
       ELSE \E r \in {[i \in DOMAIN gltf.gltf_data["materials"] |->
                         updated_material(gltf.gltf_data["materials"][i],
                                          gltf.gltf_data["textures"],
                                          gltf.image_uri_map)]} :
                gltf' = [gltf EXCEPT
                            !.pc = "write",
                            !.gltf_data = put(gltf.gltf_data, "materials",
                                              [i \in DOMAIN r |-> r[i].mat]),
                            !.file_updated = gltf.file_updated
                                                 \/ \E i \in DOMAIN r : r[i].updated,
                            !.removed_specgloss_extension =
                                \E i \in DOMAIN r : r[i].removed]
    /\ UNCHANGED <<entries, runVars, ctorVars, worker, transform>>

\* What a file holds after open(path, "w") succeeded and json.dump failed.
Truncated == [truncated |-> TRUE]

\* The outcomes of writing the document: written; open() fails and the file
\* is as it was; open() truncates the file and json.dump fails.
WriteOutcomes == {"written", "open_failed", "dump_failed"}

\* The write step that opens the file whether or not anything was updated.
WriteGltf_always ==
    /\ gltf.pc = "write"
    /\ \E d \in {with_extensions_updated(gltf.gltf_data,
                                         gltf.removed_specgloss_extension)} :
       \E outcome \in WriteOutcomes :
           gltf' = [gltf EXCEPT
                       !.pc = "done",
                       !.gltf_data = d,
                       !.write = outcome,
                       !.error = IF outcome = "written" THEN "none" ELSE "write",
                       !.disk = CASE outcome = "written" -> d
                                  [] outcome = "open_failed" -> gltf.disk
                                  [] outcome = "dump_failed" -> Truncated,
                       !.updated_gltf_count =
                           IF outcome = "written" THEN gltf.updated_gltf_count + 1
                                                  ELSE gltf.updated_gltf_count]
    /\ UNCHANGED <<entries, runVars, ctorVars, worker, transform>>

\* The extension lists are updated and the document is written over the file
\* when anything was updated; a failed write is logged.
WriteGltf ==
    /\ gltf.pc = "write"
    /\ IF gltf.file_updated
       THEN \E d \in {with_extensions_updated(gltf.gltf_data,
                                              gltf.removed_specgloss_extension)} :
            \E outcome \in WriteOutcomes :
                gltf' = [gltf EXCEPT
                            !.pc = "done",
                            !.gltf_data = d,
                            !.write = outcome,
                            !.error = IF outcome = "written" THEN "none" ELSE "write",
                            !.disk = CASE outcome = "written" -> d
                                       [] outcome = "open_failed" -> gltf.disk
                                       [] outcome = "dump_failed" -> Truncated,
                            !.updated_gltf_count =
                                IF outcome = "written" THEN gltf.updated_gltf_count + 1
                                                       ELSE gltf.updated_gltf_count]
       ELSE gltf' = [gltf EXCEPT !.pc = "done"]
    /\ UNCHANGED <<entries, runVars, ctorVars, worker, transform>>

GltfNext == LoadGltf \/ UpdateImages \/ UpdateMaterials \/ WriteGltf

GltfSpec == GltfInit /\ [][GltfNext]_vars

\* --------------------------------------------- the scan over several documents

\* Largest number of .gltf files in the input folder.
MaxDocuments == 2

\* The documents of a folder with several .gltf files: one image, no material.
ScanDocuments ==
    { [images |-> <<img>>, textures |-> Textures, materials |-> <<>>] :
        img \in ImagePool } \cup MalformedDocuments

\* update_gltf_files has found the first .gltf file of the folder.
GltfScanInit ==
    /\ entries = {}
    /\ tarkin_mode = TRUE
    /\ png_compression = PNG_COMPRESSION_DEFAULT
    /\ has_callback = FALSE
    /\ RunInit
    /\ CtorIdle
    /\ worker = [pc |-> "idle"]
    /\ transform = [pc |-> "idle"]
    /\ \E docs \in SeqsUpTo(ScanDocuments, 1, MaxDocuments) :
           gltf = OpenDocument(Head(docs), Tail(docs), 0, DEFAULT_OUTPUT_SUBFOLDER)

\* The loop over the folder goes on to the next .gltf file.
NextDocument ==
    /\ gltf.pc = "done"
    /\ gltf.rest # <<>>
    /\ gltf' = OpenDocument(Head(gltf.rest), Tail(gltf.rest),
                            gltf.updated_gltf_count, gltf.output_folder_basename)
    /\ UNCHANGED <<entries, runVars, ctorVars, worker, transform>>

GltfScanNext == GltfNext \/ NextDocument

GltfScanSpec == GltfScanInit /\ [][GltfScanNext]_vars

\* ------------------------------------------- update_gltf_files, called again

\* update_gltf_files is called a second time, with the same output folder, on
\* the document its first call wrote.
ApplyAgain ==
    /\ gltf.pc = "done"
    /\ gltf.write = "written"
    /\ gltf.application = 1
    /\ gltf' = [OpenDocument(gltf.disk, <<>>, 0, gltf.output_folder_basename)
                   EXCEPT !.application = 2]
    /\ UNCHANGED <<entries, runVars, ctorVars, worker, transform>>

GltfAgainNext == GltfNext \/ ApplyAgain

GltfAgainSpec == GltfInit /\ [][GltfAgainNext]_vars

\* ------------------------------------------------ the drivers: run_cli, the GUI

\* The .gltf document an input folder may hold next to its textures (at most
\* one): one image whose URI is the name of a file of the folder.
FolderDocuments(es) ==
    { [images |-> <<[uri |-> e.name]>>, textures |-> Textures, materials |-> <<>>] :
        e \in {x \in es : x.kind = "file"} }

\* update_gltf_files(processor.input_folder, processor.output_folder) once it
\* has scanned the folder: at the first .gltf file, or done when there is none.
StartUpdateGltf(docs, output_folder_abs_path) ==
    IF docs = <<>>
    THEN [OpenDocument(EmptyDict, <<>>, 0, output_folder_abs_path) EXCEPT !.pc = "done"]
    ELSE OpenDocument(Head(docs), Tail(docs), 0, output_folder_abs_path)

\* A driver that runs the GLTF update in either mode.
InvokeUpdateGltf_any_mode ==
    /\ pc = "done"
    /\ returned.some
    /\ gltf.pc = "idle"
    /\ \E docs \in SeqsUpTo(FolderDocuments(entries), 0, 1) :
           gltf' = StartUpdateGltf(docs, output_folder)
    /\ UNCHANGED <<entries, runVars, ctorVars, worker, transform>>

\* run_cli after process_all has returned, and post_processing_tasks, which
\* the GUI thread schedules after process_all has returned: in Tarkin mode
\* update_gltf_files is called.  The CLI passes no progress callback to
\* process_all and the GUI passes one.
InvokeUpdateGltf ==
    /\ pc = "done"
    /\ returned.some
    /\ tarkin_mode
    /\ gltf.pc = "idle"
    /\ \E docs \in SeqsUpTo(FolderDocuments(entries), 0, 1) :
           gltf' = StartUpdateGltf(docs, output_folder)
    /\ UNCHANGED <<entries, runVars, ctorVars, worker, transform>>

DriverNext == Next \/ InvokeUpdateGltf \/ GltfNext

\* One run of a driver: TextureProcessor, process_all, then the GLTF update.
DriverSpec == Init /\ [][DriverNext]_vars

\* ------------------------------------------------------------------ claims

FixedSuffixes ==
    { <<"_", "c", "o", "l", "o", "r">>, <<"_", "a", "l", "p", "h", "a">>,
      <<"_", "s", "p", "e", "c">>, <<"_", "r", "o", "u", "g", "h", "n", "e", "s", "s">>,
      <<"_", "c", "o", "n", "v", "e", "r", "t", "e", "d">> }

\* The number of collected results with a status.
CountStatus(status) ==
    Cardinality({i \in DOMAIN processed_results : processed_results[i].status = status})

\* No future.result() raised and no save failed.
NoFault ==
    /\ \A i \in DOMAIN processed_results : processed_results[i].error # "Critical error"
    /\ failed_saves = 0

\* The names written into the run's output folder.
WrittenNames == {p[2] : p \in {q \in written : q[1] = output_folder}}

\* C1: in a run that discovered N >= 1 files, every collected file is counted
\* in exactly one of successful, failed, skipped, whatever the arrival order and
\* outcome, and the returned counts add up to N (a file with two output images
\* counts once).
C1_TallyCountsEachFileOnce ==
    /\ successful_count + failed_count + skipped_count = Cardinality(input_files \ pending)
    /\ (returned.some /\ input_files # {}) =>
           /\ returned.val[1] + returned.val[2] + returned.val[3] = Cardinality(input_files)
           /\ returned.val = <<CountStatus("success"), CountStatus("failed"),
                               CountStatus("skipped")>>

\* C1 witness: a finished run of two files, one of them a Diffuse file that
\* gave two save tasks, the other one failed.
C1_Witness ==
    /\ returned.some
    /\ Cardinality(input_files) = 2
    /\ returned.val = <<1, 1, 0>>
    /\ Len(save_tasks) = 2

\* C2: every run ends: process_all returns a tally and every discovered file
\* has received an outcome, whatever fails on the way.
C2_RunTerminatesWithTally ==
    <>(/\ pc = "done"
       /\ returned.some
       /\ pending = {}
       /\ save_pending = {}
       /\ Len(processed_results) = Cardinality(input_files))

\* C2 witness: a run of two files has returned although every file failed.
C2_Witness ==
    /\ pc = "done"
    /\ returned.some
    /\ Cardinality(input_files) = 2
    /\ returned.val = <<0, 2, 0>>

\* C3 as stated: a supplied callback is invoked at least once per completed
\* file in the processing stage and once per completed save in the saving stage.
C3_CallbackInBothStages ==
    has_callback =>
        /\ Len(progress_calls) >= processed_files_count
        /\ Len(save_progress_calls) >= successful_saves + failed_saves

\* C3 amended: a supplied callback is invoked at least once per completed file
\* in the processing stage; process_all gives save_processed_data no callback,
\* so it is never invoked in the saving stage.
C3_CallbackInProcessingStageOnly ==
    has_callback =>
        /\ Len(progress_calls) >= processed_files_count
        /\ \A k \in 1..processed_files_count : \E i \in DOMAIN progress_calls :
               progress_calls[i][1] = k
        /\ ~save_has_callback
        /\ save_progress_calls = <<>>

\* C3 witness: a run with a callback has collected two files, one by an
\* exception, and completed two saves.
C3_Witness ==
    /\ has_callback
    /\ pc = "done"
    /\ processed_files_count = 2
    /\ \E i \in DOMAIN processed_results : processed_results[i].error = "Critical error"
    /\ successful_saves + failed_saves >= 2

\* C4 as stated: the save tasks of one run target pairwise different paths.
C4_SavePathsDistinct ==
    \A i, j \in DOMAIN save_tasks :
        i # j => save_tasks[i].out_path # save_tasks[j].out_path

\* C7: every save task's file name, as built and as written, is the base name
\* of a discovered file (its supported extension cut off) followed by one fixed
\* suffix and .png.
IsDerivedName(name, files) ==
    \E f \in files : \E ext \in SUPPORTED_FORMATS :
        /\ splitext(lower(f))[2] = ext
        /\ \E sfx \in FixedSuffixes :
               name = SubSeq(f, 1, Len(f) - Len(ext)) \o sfx \o EXT_PNG

C7_SaveNameIsBasePlusSuffix ==
    /\ \A i \in DOMAIN save_tasks :
           /\ save_tasks[i].out_path[1] = output_folder
           /\ IsDerivedName(save_tasks[i].out_path[2], input_files)
           /\ SavedPath(save_tasks[i].out_path) = save_tasks[i].out_path
    /\ \A p \in written : p[1] = output_folder /\ IsDerivedName(p[2], input_files)

\* C7 witness: a.b_d.tga (a dot and an underscore in the base name, not a .png)
\* was written as a.b_d_color.png.
C7_Witness ==
    <<output_folder, <<"a", ".", "b", "_", "d", "_", "c", "o", "l", "o", "r">> \o EXT_PNG>>
        \in written

\* The scenario of C8: the folder holds helmet_d.png and helmet_n.png, Standard
\* mode, optimize=false, and the run has returned with nothing failing around it.
HelmetScenarioDone ==
    /\ {e \in entries : e.kind = "file"} =
           { File(S_helmet \o <<"_", "d">> \o EXT_PNG, Translucent4),
             File(S_helmet \o <<"_", "n">> \o EXT_PNG, Height4) }
    /\ ~tarkin_mode
    /\ png_compression = PNG_COMPRESSION_DEFAULT
    /\ pc = "done"
    /\ input_files # {}
    /\ NoFault

\* C8 as stated: the scenario ends with helmet_color.png, helmet_alpha.png and
\* helmet_converted.png in the output folder and the tally (2,0,0).
C8_HelmetOutputsAsStated ==
    HelmetScenarioDone =>
        /\ { S_helmet \o <<"_", "c", "o", "l", "o", "r">> \o EXT_PNG,
             S_helmet \o <<"_", "a", "l", "p", "h", "a">> \o EXT_PNG,
             S_helmet \o <<"_", "c", "o", "n", "v", "e", "r", "t", "e", "d">> \o EXT_PNG }
               \subseteq WrittenNames
        /\ returned = Some(<<2, 0, 0>>)

\* C8 amended: the scenario ends with helmet_d_color.png, helmet_d_alpha.png
\* and helmet_n_converted.png (the role token stays in the name) as the content
\* of the output folder, and the tally (2,0,0).
C8_HelmetOutputsKeepRoleToken ==
    HelmetScenarioDone =>
        /\ WrittenNames =
             { S_helmet \o <<"_", "d", "_", "c", "o", "l", "o", "r">> \o EXT_PNG,
               S_helmet \o <<"_", "d", "_", "a", "l", "p", "h", "a">> \o EXT_PNG,
               S_helmet \o <<"_", "n", "_", "c", "o", "n", "v", "e", "r", "t", "e", "d">>
                   \o EXT_PNG }
        /\ written = {<<output_folder, n>> : n \in WrittenNames}
        /\ returned = Some(<<2, 0, 0>>)

C8_Witness == HelmetScenarioDone

\* C9: a failed save is counted in failed_saves only: once the run is done every
\* save task has been executed, and from the start of the saving stage on the
\* tally is the one the collected results give, which process_all returns.
C9_FailedSaveKeepsTally ==
    pc \in {"saving", "done"} =>
        /\ Tally = <<CountStatus("success"), CountStatus("failed"), CountStatus("skipped")>>
        /\ successful_saves + failed_saves = Len(save_tasks) - Cardinality(save_pending)
        /\ Cardinality(written) <= successful_saves
        /\ (pc = "done" /\ input_files # {}) =>
               /\ save_pending = {}
               /\ returned = Some(Tally)

\* C9 witness: a run has returned after one save failed and another succeeded.
C9_Witness ==
    /\ pc = "done"
    /\ failed_saves >= 1
    /\ successful_saves >= 1
    /\ returned.some
    /\ returned.val[1] >= 1

\* C10 as stated: a collected file whose bytes do not decode has a failed
\* result, whatever its name's role, makes failed >= 1, and the run writes no
\* output file of its base name.
Undecodable(f) == ~ContentOf(entries, f).ok

C10_UndecodableFails ==
    \A f \in input_files \ pending :
        Undecodable(f) =>
            /\ failed_count >= 1
            /\ \E i \in DOMAIN processed_results :
                   /\ processed_results[i].base_name = splitext(f)[1]
                   /\ processed_results[i].status = "failed"
            /\ \A sfx \in FixedSuffixes :
                   <<output_folder, splitext(f)[1] \o sfx \o EXT_PNG>> \notin written

\* The output folders of the runs constructed so far.
Outputs(rs) == {run_output[r] : r \in rs}

\* The folder a probe of converted_textures, converted_textures_1, ... picks in
\* a folder holding the names seen.
FirstFree(seen) == ProbeLoop({Dir(n) : n \in seen}, DEFAULT_OUTPUT_SUBFOLDER, 1)

\* C5 as stated: two runs of processor.py constructed on the same input folder
\* never end up with the same output folder, however probe and creation
\* interleave.
C5_ConcurrentRunsNeverShare ==
    \A r, q \in Finished :
        (r # q /\ run_impl[r] = "package" /\ run_impl[q] = "package") =>
            run_output[r] # run_output[q]

\* C5 amended: a run's output folder is never a path that existed when its
\* construction began, so it is never the folder of a run constructed before
\* that; only runs whose constructions overlap can share a folder.
C5_NeverFolderSeenAtStart ==
    \A r \in Finished :
        /\ run_output[r] \notin run_seen[r]
        /\ \A q \in run_preds[r] : run_output[q] # run_output[r]
        /\ \A q \in Finished :
               (q # r /\ run_output[q] = run_output[r]) =>
                   (q \notin run_preds[r] /\ r \notin run_preds[q])

\* C5 witness: two constructions of processor.py overlapped on a folder that
\* already held converted_textures, and both are constructed.
C5_Witness ==
    \E r, q \in Finished :
        /\ r # q
        /\ run_impl[r] = "package" /\ run_impl[q] = "package"
        /\ q \notin run_preds[r] /\ r \notin run_preds[q]
        /\ DEFAULT_OUTPUT_SUBFOLDER \in run_seen[r] \cap run_seen[q]

\* C6 as stated: of runs constructed one after another, each gets a folder that
\* did not exist when it was constructed, the first free one of
\* converted_textures, converted_textures_1, converted_textures_2, ...
C6_SerialRunsTakeFirstFree ==
    \A r \in Finished :
        /\ run_output[r] \notin run_seen[r]
        /\ run_output[r] \notin Outputs(run_preds[r])
        /\ run_output[r] = FirstFree(run_seen[r])

\* s ends with suffix and is longer than it.
HasSuffix(s, suffix) ==
    /\ Len(s) > Len(suffix)
    /\ SubSeq(s, Len(s) - Len(suffix) + 1, Len(s)) = suffix

\* The names of the regular files of the folder that do not begin with a dot
\* and end, lower-cased, with a supported extension.
SupportedFileNames ==
    {e.name : e \in {x \in entries :
        /\ x.kind = "file"
        /\ x.name[1] # "."
        /\ \E ext \in SUPPORTED_FORMATS : HasSuffix(lower(x.name), ext)}}

\* C11: discovery dispatches exactly the regular files of the folder whose name
\* does not begin with a dot and whose lower-cased extension is supported; no
\* other entry is dispatched, gets a result or is counted.
C11_DiscoveryKeepsSupportedFiles ==
    /\ input_files \subseteq SupportedFileNames
    /\ pc \in {"processing", "saving"} => input_files = SupportedFileNames
    /\ (pc = "done" /\ input_files # {}) => input_files = SupportedFileNames
    /\ pending \subseteq input_files
    /\ Len(processed_results) = Cardinality(input_files \ pending)
    /\ \A i \in DOMAIN processed_results :
           \E f \in input_files : processed_results[i].base_name = splitext(f)[1]
    /\ successful_count + failed_count + skipped_count <= Cardinality(SupportedFileNames)

\* C11 witness: a finished run on a folder that holds one supported file and
\* one entry discovery leaves out (a .psd file, a dot-file or a subfolder named
\* like a texture) has counted exactly one file.
C11_Witness ==
    /\ pc = "done"
    /\ returned.some
    /\ returned.val[1] + returned.val[2] + returned.val[3] = 1
    /\ \E e \in entries :
           /\ e.name \notin input_files
           /\ e.name # output_folder

\* The tokens of the worker call's file name, lower-cased.
LoweredTokens == [i \in DOMAIN worker.tokens |-> lower(worker.tokens[i])]

KnownTokens == NormalTokens \cup DiffuseTokens \cup GlossTokens \cup SpecGlosTokens

\* The positions of the tokens that belong to a known-role token set.
KnownAt == {i \in DOMAIN LoweredTokens : LoweredTokens[i] \in KnownTokens}

\* The result a known token gives when it decides.
RoleOfToken(tok, tarkin) ==
    CASE tok \in NormalTokens -> Some(NORMAL)
      [] tok \in DiffuseTokens -> Some(DIFFUSE)
      [] tok \in GlossTokens -> IF tarkin THEN None ELSE Some(GLOSS)
      [] tok \in SpecGlosTokens -> IF tarkin THEN Some(SPECGLOS) ELSE None

\* C12: processor.py's _get_texture_type lets the rightmost token that belongs
\* to a known-role token set decide, whatever matching tokens stand to its
\* left; a_diff_n.png is Normal in both modes.
C12_RightmostTokenDecides ==
    (worker.pc # "ready" /\ worker.impl = "package") =>
        /\ KnownAt # {} =>
               worker.texture_type = RoleOfToken(LoweredTokens[Max(KnownAt)], worker.tarkin)
        /\ worker.tokens = <<<<"a">>, <<"d", "i", "f", "f">>, <<"n">>>> =>
               worker.texture_type = Some(NORMAL)

\* C12 witness: a_diff_n.png was classified as Normal in Tarkin mode.
C12_Witness ==
    /\ worker.pc = "classified"
    /\ worker.impl = "package"
    /\ worker.filename = <<"a", "_", "d", "i", "f", "f", "_", "n">> \o EXT_PNG
    /\ worker.tarkin
    /\ worker.texture_type = Some(NORMAL)

\* The last token of the worker call's file name, lower-cased.
LastToken == LoweredTokens[Len(LoweredTokens)]

\* C13 as stated: in processor.py and in the single-file script, a name whose
\* last token is g or gloss is Gloss in Standard mode and None in Tarkin mode,
\* and a name whose last token is sg or specglos is SpecGlos in Tarkin mode and
\* None in Standard mode.
C13_ModeExclusiveRoles ==
    worker.pc # "ready" =>
        /\ LastToken \in {<<"g">>, <<"g", "l", "o", "s", "s">>} =>
               worker.texture_type = (IF worker.tarkin THEN None ELSE Some(GLOSS))
        /\ LastToken \in {<<"s", "g">>, <<"s", "p", "e", "c", "g", "l", "o", "s">>} =>
               worker.texture_type = (IF worker.tarkin THEN Some(SPECGLOS) ELSE None)

\* C14: a name none of whose tokens is known is Normal in Standard mode and
\* None in Tarkin mode; the worker then turns a decodable file into one
\* converted normal map in Standard mode and skips it in Tarkin mode.
C14_NoTokenDefaults ==
    (worker.pc # "ready" /\ worker.impl = "package" /\ KnownAt = {}) =>
        /\ worker.texture_type = (IF worker.tarkin THEN None ELSE Some(NORMAL))
        /\ (worker.result.some /\ worker.content.ok) =>
               IF worker.tarkin
               THEN /\ worker.result.val.status = "skipped"
                    /\ worker.result.val.data = <<>>
               ELSE /\ worker.result.val.status = "success"
                    /\ worker.result.val.data =
                         <<<<"converted",
                            _process_normal_map_standard(_load_image(worker.content).val)>>>>

\* C14 witness: a_a.png, decodable, was processed as a normal map in Standard
\* mode.
C14_Witness ==
    /\ worker.pc = "processed"
    /\ worker.tokens = <<<<"a">>, <<"a">>>>
    /\ ~worker.tarkin
    /\ worker.content = Translucent4
    /\ worker.result.val.status = "success"

\* Some pixel of the file has alpha below 255.
HasTranslucentPixel(content) ==
    /\ content.ch = 4
    /\ \E i \in DOMAIN content.px : content.px[i][4] < MaxByte

\* The output keys a role gives in a mode.
ExpectedKeys(role, tarkin, content) ==
    CASE role = SPECGLOS -> <<"spec", "roughness">>
      [] role = DIFFUSE -> IF ~tarkin /\ HasTranslucentPixel(content)
                           THEN <<"color", "alpha">>
                           ELSE <<"color">>
      [] role = NORMAL -> <<"converted">>
      [] role = GLOSS -> <<"roughness">>

\* C15: a Success outcome has the outputs its role and mode fix (SpecGlos two,
\* Diffuse one in Tarkin mode and one or two in Standard mode, alpha only with
\* a pixel of alpha < 255, Normal and Gloss one), and the saving stage builds
\* one save task per output.
C15_OutputCountByRole ==
    (worker.pc = "built" /\ worker.result.val.status = "success") =>
        LET data == worker.result.val.data
        IN  /\ worker.texture_type.some
            /\ [i \in DOMAIN data |-> data[i][1]] =
                   ExpectedKeys(worker.texture_type.val, worker.tarkin, worker.content)
            /\ Len(worker.tasks) = Len(data)
            /\ \A i \in DOMAIN data :
                   /\ worker.tasks[i].img_array = data[i][2]
                   /\ worker.tasks[i].out_path[2] =
                          worker.result.val.base_name \o SuffixOf(data[i][1]).val \o EXT_PNG

\* C15 witness: a translucent Diffuse file gave color and alpha, and two save
\* tasks, in Standard mode.
C15_Witness ==
    /\ worker.pc = "built"
    /\ ~worker.tarkin
    /\ worker.texture_type = Some(DIFFUSE)
    /\ worker.content = Translucent4
    /\ Len(worker.tasks) = 2

\* The pixels of the transform call's input.
InPx == transform.img_array.px

\* The image with one pixel F(p) for every input pixel p.
PixelWise(F(_)) == [ch |-> 4, px |-> [i \in DOMAIN InPx |-> F(InPx[i])]]

\* C16 as stated: in processor.py and in the single-file script, the Normal
\* transform of Standard mode maps every pixel (R,G,B,A) to (A,G,255,255).
C16_NormalStandardPixels ==
    (transform.pc = "done" /\ transform.texture_type = NORMAL /\ ~transform.tarkin) =>
        transform.out = <<<<"converted", PixelWise(LAMBDA p : <<p[4], p[2], 255, 255>>)>>>>

\* C17 as stated: in processor.py and in the single-file script, the Diffuse
\* transform of Standard mode emits alpha = (A,A,A,255) exactly when some pixel
\* has A < 255, and always color = (R,G,B,255).
C17_DiffuseStandardAlpha ==
    (transform.pc = "done" /\ transform.texture_type = DIFFUSE /\ ~transform.tarkin) =>
        transform.out =
            IF \E i \in DOMAIN InPx : InPx[i][4] < 255
            THEN << <<"color", PixelWise(LAMBDA p : <<p[1], p[2], p[3], 255>>)>>,
                    <<"alpha", PixelWise(LAMBDA p : <<p[4], p[4], p[4], 255>>)>> >>
            ELSE << <<"color", PixelWise(LAMBDA p : <<p[1], p[2], p[3], 255>>)>> >>

\* C18: the SpecGlos split maps every pixel (R,G,B,A) to spec = (R,G,B,255) and
\* roughness = (255-A, 255-A, 255-A, 255), every channel within 0..255.
C18_SpecGlosSplitPixels ==
    (transform.pc = "done" /\ transform.texture_type = SPECGLOS) =>
        /\ transform.out =
              << <<"spec", PixelWise(LAMBDA p : <<p[1], p[2], p[3], 255>>)>>,
                 <<"roughness", PixelWise(LAMBDA p : <<255 - p[4], 255 - p[4], 255 - p[4], 255>>)>> >>
        /\ \A k \in DOMAIN transform.out : \A i \in DOMAIN InPx : \A c \in 1..4 :
               transform.out[k][2].px[i][c] \in 0..255

\* C18 witness: a pixel of alpha 0 was split: its roughness is 255.
C18_Witness ==
    /\ transform.pc = "done"
    /\ transform.texture_type = SPECGLOS
    /\ InPx = <<<<128, 0, 255, 0>>>>
    /\ transform.out[2][2].px = <<<<255, 255, 255, 255>>>>

\* The image loop of update_gltf_files has run on the loaded document.
ImagesRewritten ==
    "images" \in DOMAIN gltf.gltf_data /\ gltf.pc \in {"materials", "write", "done"}

\* The file name of an image entry's URI.
FileNameOf(img) == basename(replace_backslash(img["uri"]))

\* The image entry has a non-data URI.
HasFileUri(img) ==
    /\ "uri" \in DOMAIN img
    /\ img["uri"] # <<>>
    /\ ~startswith(img["uri"], DATA_PREFIX)

\* The suffix of the role a file name classifies as in Tarkin mode.
RoleSuffix(filename) ==
    LET t == _get_texture_type(filename, TRUE)
    IN  CASE t = Some(DIFFUSE)  -> Some(<<"_", "c", "o", "l", "o", "r">>)
          [] t = Some(SPECGLOS) -> Some(<<"_", "r", "o", "u", "g", "h", "n", "e", "s", "s">>)
          [] t = Some(NORMAL)   -> Some(<<"_", "c", "o", "n", "v", "e", "r", "t", "e", "d">>)
          [] OTHER -> None

\* C19: every image entry with a non-data URI whose file name classifies
\* (Tarkin mode) as Diffuse, SpecGlos or Normal gets the URI
\* outputFolderBasename/<baseFilename><roleSuffix>.png, with one .png extension.
C19_UriIsBaseSuffixPng ==
    ImagesRewritten =>
        \A i \in DOMAIN gltf.orig["images"] :
            LET img == gltf.orig["images"][i]
            IN  (HasFileUri(img) /\ RoleSuffix(FileNameOf(img)).some) =>
                    gltf.gltf_data["images"][i]["uri"] =
                        gltf.output_folder_basename \o <<"/">>
                            \o splitext(FileNameOf(img))[1]
                            \o RoleSuffix(FileNameOf(img)).val \o EXT_PNG

\* update_gltf_files has finished with a document it could load.
GltfFinished == gltf.pc = "done" /\ "images" \in DOMAIN gltf.gltf_data

\* Image k (0-based) of the document was given a new URI.
Remapped(k) ==
    /\ k + 1 \in DOMAIN gltf.orig["images"]
    /\ gltf.gltf_data["images"][k + 1] # gltf.orig["images"][k + 1]

\* The material's KHR_materials_pbrSpecularGlossiness.diffuseTexture.index
\* points, through textures[].source, at a remapped image.
DiffusePointsAtRemapped(mat) ==
    /\ "extensions" \in DOMAIN mat
    /\ KHR_SPECGLOSS \in DOMAIN mat["extensions"]
    /\ "diffuseTexture" \in DOMAIN mat["extensions"][KHR_SPECGLOSS]
    /\ LET t == mat["extensions"][KHR_SPECGLOSS]["diffuseTexture"]["index"]
       IN  /\ t + 1 \in DOMAIN gltf.orig["textures"]
           /\ "source" \in DOMAIN gltf.orig["textures"][t + 1]
           /\ Remapped(gltf.orig["textures"][t + 1]["source"])

\* The material carries the specular-glossiness extension.
CarriesSpecGloss(mat) ==
    "extensions" \in DOMAIN mat /\ KHR_SPECGLOSS \in DOMAIN mat["extensions"]

\* C20: a material whose specular-glossiness diffuseTexture.index points at a
\* remapped image has, after update_gltf_files, no
\* extensions.KHR_materials_pbrSpecularGlossiness key and the same texture
\* index in pbrMetallicRoughness.baseColorTexture, and extensionsUsed no longer
\* lists the extension if no other material carries it.
C20_MaterialMigrated ==
    GltfFinished =>
        \A i \in DOMAIN gltf.orig["materials"] :
            LET old == gltf.orig["materials"][i]
                mat == gltf.gltf_data["materials"][i]
            IN  DiffusePointsAtRemapped(old) =>
                    /\ ~CarriesSpecGloss(mat)
                    /\ "pbrMetallicRoughness" \in DOMAIN mat
                    /\ "baseColorTexture" \in DOMAIN mat["pbrMetallicRoughness"]
                    /\ mat["pbrMetallicRoughness"]["baseColorTexture"]["index"] =
                           old["extensions"][KHR_SPECGLOSS]["diffuseTexture"]["index"]
                    /\ (\A j \in DOMAIN gltf.gltf_data["materials"] \ {i} :
                            ~CarriesSpecGloss(gltf.gltf_data["materials"][j]))
                        => KHR_SPECGLOSS \notin get(gltf.gltf_data, "extensionsUsed", {})

\* C20 witness: a document that listed the extension in extensionsUsed was
\* written back after a material pointing at a remapped image was migrated,
\* and no material carries the extension any more.
C20_Witness ==
    /\ GltfFinished
    /\ gltf.updated_gltf_count = 1
    /\ KHR_SPECGLOSS \in get(gltf.orig, "extensionsUsed", {})
    /\ \E i \in DOMAIN gltf.orig["materials"] :
           DiffusePointsAtRemapped(gltf.orig["materials"][i])
    /\ \A j \in DOMAIN gltf.disk["materials"] :
           ~CarriesSpecGloss(gltf.disk["materials"][j])
    /\ KHR_SPECGLOSS \notin get(gltf.disk, "extensionsUsed", {})

\* An image URI or a material of the loaded document differs from the original.
DocumentChanged ==
    /\ "images" \in DOMAIN gltf.gltf_data
    /\ \/ gltf.gltf_data["images"] # gltf.orig["images"]
       \/ gltf.gltf_data["materials"] # gltf.orig["materials"]

\* C21: the document is opened for writing only if an image URI or a material
\* of it changed; a document in which nothing changed is never opened for
\* writing and its file holds what it held.
C21_WrittenOnlyIfChanged ==
    /\ gltf.write # "none" => DocumentChanged
    /\ ~DocumentChanged => gltf.write = "none" /\ gltf.disk = gltf.orig

\* C21 witness: update_gltf_files has finished with a document that holds an
\* image with a file URI and a specular-glossiness material, changed nothing
\* in it and left its file alone.
C21_Witness ==
    /\ GltfFinished
    /\ gltf.write = "none"
    /\ ~DocumentChanged
    /\ gltf.disk = gltf.orig
    /\ \E i \in DOMAIN gltf.orig["images"] : HasFileUri(gltf.orig["images"][i])
    /\ \E j \in DOMAIN gltf.orig["materials"] :
           CarriesSpecGloss(gltf.orig["materials"][j])

\* The scan over the folder has ended.
ScanEnded == gltf.pc = "aborted" \/ (gltf.pc = "done" /\ gltf.rest = <<>>)

\* C22: an error on one document (parse failure, write failure, exception
\* while walking a malformed structure) leaves that document unmodified on
\* disk, and every other .gltf document of the folder is still processed: the
\* scan does not end with documents it has not reached.
C22_ErrorAffectsOneDocument ==
    /\ gltf.error # "none" => gltf.disk = gltf.orig
    /\ ScanEnded => gltf.rest = <<>>

\* The position of a run's stage in Discovering, Processing, Saving, Done
\* (construction comes before them).
StageRank(p) ==
    CASE p = "construct" -> 0
      [] p = "discover" -> 1
      [] p = "processing" -> 2
      [] p = "saving" -> 3
      [] p = "done" -> 4

\* A save task has been built or started, or a file has been written into the
\* output folder.
SaveBegun == pc = "saving" \/ save_tasks # <<>> \/ save_pending # {} \/ written # {}

\* Every processing task has completed and its outcome has been collected.
ProcessingDrained ==
    /\ pending = {}
    /\ processed_files_count = total_files
    /\ Len(processed_results) = Cardinality(input_files)

\* C23: the stage of a run never moves backward through Discovering,
\* Processing, Saving, Done, and no save task starts and nothing is written
\* into the output folder before every processing task has completed and been
\* collected.
C23_StagesForwardWithBarrier ==
    /\ [][StageRank(pc') >= StageRank(pc)]_vars
    /\ [](SaveBegun => ProcessingDrained)

\* C23 witness: a run of two discovered files is in the save stage and has
\* written a file, with a save task still to complete.
C23_Witness ==
    /\ pc = "saving"
    /\ total_files = 2
    /\ written # {}
    /\ save_pending # {}

\* C24: in the processing stage the callback is called with completed = 1, 2,
\* ..., N in this order and total = N, the number of discovered files, on
\* every call, whatever the order and the outcomes of the results; once the
\* stage is over the last call has completed = total.
C24_ProgressCountsEveryFile ==
    has_callback =>
        /\ progress_calls = [i \in 1..processed_files_count |->
                                <<i, Cardinality(input_files)>>]
        /\ (pc \in {"saving", "done"} /\ input_files # {}) =>
               /\ Len(progress_calls) = Cardinality(input_files)
               /\ progress_calls[Len(progress_calls)][1] = progress_calls[Len(progress_calls)][2]

\* C24 witness: a run with a callback has collected two results, one that
\* raised and one success, and has left the processing stage.
C24_Witness ==
    /\ has_callback
    /\ pc \in {"saving", "done"}
    /\ progress_calls = <<<<1, 2>>, <<2, 2>>>>
    /\ \E i, j \in DOMAIN processed_results :
           /\ processed_results[i].error = "Critical error"
           /\ processed_results[j].status = "success"

\* The texture infos a material references: those of its specular-glossiness
\* block, its own and those of its pbrMetallicRoughness block.
ReferencedTextureInfos(mat) ==
    LET sg  == get(get(mat, "extensions", EmptyDict), KHR_SPECGLOSS, EmptyDict)
        pbr == get(mat, "pbrMetallicRoughness", EmptyDict)
    IN  {sg[k] : k \in DOMAIN sg \cap {"diffuseTexture", "specularGlossinessTexture"}}
            \cup {mat[k] : k \in DOMAIN mat \cap PBR_TEXTURE_KEYS}
            \cup {pbr[k] : k \in DOMAIN pbr \cap PBR_TEXTURE_KEYS}

\* The texture info names, through textures[].source, a remapped image.
TextureRemapped(tex_info) ==
    /\ tex_info["index"] + 1 \in DOMAIN gltf.orig["textures"]
    /\ "source" \in DOMAIN gltf.orig["textures"][tex_info["index"] + 1]
    /\ Remapped(gltf.orig["textures"][tex_info["index"] + 1]["source"])

\* C25: a material carrying the specular-glossiness extension is migrated (its
\* extension block removed, the document marked changed) only if a texture it
\* references maps to a remapped image; otherwise the material stays as it was.
C25_MigratedOnlyIfRemapped ==
    GltfFinished =>
        \A i \in DOMAIN gltf.orig["materials"] :
            LET old == gltf.orig["materials"][i]
            IN  (CarriesSpecGloss(old)
                    /\ \A t \in ReferencedTextureInfos(old) : ~TextureRemapped(t))
                => gltf.gltf_data["materials"][i] = old

\* update_gltf_files has been invoked.
GltfInvoked == gltf.pc # "idle"

\* C26: update_gltf_files is invoked only in Tarkin mode and only after
\* process_all has returned, with every processing and save task finished; in
\* Standard mode it is never invoked, with the CLI (no callback) or the GUI.
C26_GltfOnlyInTarkinAfterRun ==
    /\ GltfInvoked =>
          /\ tarkin_mode
          /\ pc = "done"
          /\ returned.some
          /\ pending = {}
          /\ save_pending = {}
    /\ ~tarkin_mode => ~GltfInvoked

\* C26 witness: a Tarkin-mode run of the GUI has saved a file and returned,
\* and update_gltf_files has then rewritten a document of the folder.
C26_Witness ==
    /\ tarkin_mode
    /\ has_callback
    /\ written # {}
    /\ returned.some
    /\ gltf.pc = "done"
    /\ gltf.write = "written"

\* C27: a second application of update_gltf_files, with the same output
\* folder, to a document it has already rewritten changes again the URI of
\* every image whose file name classifies as Diffuse, SpecGlos or Normal, and
\* opens the document for writing again.
C27_SecondApplicationRewrites ==
    (gltf.application = 2 /\ GltfFinished) =>
        /\ \A i \in DOMAIN gltf.orig["images"] :
               LET img == gltf.orig["images"][i]
               IN  (HasFileUri(img) /\ RoleSuffix(FileNameOf(img)).some) =>
                       gltf.gltf_data["images"][i]["uri"] # img["uri"]
        /\ (\E i \in DOMAIN gltf.orig["images"] :
               /\ HasFileUri(gltf.orig["images"][i])
               /\ RoleSuffix(FileNameOf(gltf.orig["images"][i])).some)
            => gltf.write # "none"

\* C27 witness: the second application has finished on a document whose image
\* URI the first application had already put into the output folder, and has
\* written the document again.
C27_Witness ==
    /\ gltf.application = 2
    /\ GltfFinished
    /\ gltf.write = "written"
    /\ \E i \in DOMAIN gltf.orig["images"] :
           /\ HasFileUri(gltf.orig["images"][i])
           /\ startswith(gltf.orig["images"][i]["uri"],
                         gltf.output_folder_basename \o <<"/">>)
           /\ gltf.disk["images"][i]["uri"] # gltf.orig["images"][i]["uri"]

\* The save task k of the run was produced for the input file f with the
\* suffix of f's Tarkin-mode role in the GLTF rewrite.
TaskForFile(k, f) ==
    /\ RoleSuffix(f).some
    /\ save_tasks[k].out_path[2] =
           insert_suffix(splitext(f)[1] \o EXT_PNG, RoleSuffix(f).val)

\* C28: after a Tarkin-mode run and its GLTF rewrite, the URI written for an
\* image referencing an input file f is the output folder's basename, a slash
\* and the file name of the save task produced for f with the matching suffix.
C28_RewrittenUriNamesSavedFile ==
    (GltfInvoked /\ ImagesRewritten) =>
        \A i \in DOMAIN gltf.orig["images"] :
            LET f == gltf.orig["images"][i]["uri"]
            IN  (f \in input_files /\ gltf.gltf_data["images"][i]["uri"] # f) =>
                    \E k \in DOMAIN save_tasks :
                        /\ TaskForFile(k, f)
                        /\ gltf.gltf_data["images"][i]["uri"] =
                               output_folder \o <<"/">>
                                   \o SavedPath(save_tasks[k].out_path)[2]

\* C29: for a document whose extensionsUsed lists the specular-glossiness
\* extension, if after the rewrite some material still carries the extension
\* block, extensionsUsed and extensionsRequired still list the extension
\* wherever they listed it before.
C29_DeclarationKeptWhileNeeded ==
    (/\ GltfFinished
     /\ KHR_SPECGLOSS \in get(gltf.orig, "extensionsUsed", {})
     /\ \E j \in DOMAIN gltf.gltf_data["materials"] :
            CarriesSpecGloss(gltf.gltf_data["materials"][j]))
    => /\ KHR_SPECGLOSS \in get(gltf.gltf_data, "extensionsUsed", {})
       /\ KHR_SPECGLOSS \in get(gltf.orig, "extensionsRequired", {})
              => KHR_SPECGLOSS \in get(gltf.gltf_data, "extensionsRequired", {})

\* The regular files that are immediate entries of the input folder.
ImmediateFiles == {e.name : e \in {x \in entries : x.kind = "file"}}

\* C30: every file a run writes lies inside an output subfolder of the input
\* folder, and a run discovers only regular files that are immediate entries
\* of the input folder, a set no run adds to, so no file written by an
\* earlier run is discovered.
C30_OutputsNeverDiscovered ==
    /\ [](\A p \in written :
              /\ Len(p) = 2
              /\ \E e \in entries : e.kind = "dir" /\ e.name = p[1])
    /\ [](input_files \subseteq ImmediateFiles)
    /\ [][ImmediateFiles' = ImmediateFiles]_vars

\* C30 witness: a later run has discovered its files while a file written by
\* an earlier run lies in that run's output folder.
C30_Witness ==
    /\ pc = "processing"
    /\ input_files # {}
    /\ \E p \in written : p[1] # output_folder

====
